---- MODULE Spec2Model ----
(***************************************************************************)
(* The registries of the Fortro-Engine smart contracts, one deployed        *)
(* instance: CredentialRegistry, ConsentRegistry and SchemaRegistry, each  *)
(* of them an AccessControl.                                               *)
(* A transaction is one atomic step; a reverted transaction changes no     *)
(* contract storage.  `last` is the receipt of the transaction that was    *)
(* mined last: the function called and OK or the revert string.            *)
(***************************************************************************)
EXTENDS Integers, Sequences, FiniteSets, TLC

\* ------------------------------------------------------------------ bounds
\* number of steps explored in one behaviour: transactions mined and block
\* boundaries (block.timestamp ranges over 1..MaxSteps+1)
MaxSteps == 4
\* number of registerCredential transactions that can be in flight at once
MaxPending == 2
\* registries the factory creates
MaxRegistries == 2

\* ------------------------------------------------------------- input sets
\* externally owned accounts; "deployer" deploys the contract
Address == {"deployer", "alice", "bob"}
deployer == "deployer"
address0 == "0x0"
\* the address of the deployed SSIRegistryFactory contract
factory == "factory"
\* the accounts a role can be held by
Accounts == Address \cup {factory}
\* the address of the DIDRegistry a directly deployed registry is bound to
didRegistry0 == "didRegistry"
\* (name, description) arguments of the constructor and of updateMetadata
RegistryMetadata == {<<"registry", "">>, <<"registry 2", "renamed">>}

\* CREATE: the address of the contract its creator deploys with this nonce
createAddress_NonceReused(creator, nonce) == <<"create", creator, 2>>

createAddress(creator, nonce) == <<"create", creator, nonce>>

\* the registry the deployer deploys directly
registry0 == createAddress(deployer, 1)
\* the addresses a registry can be deployed at: the factory's nonce 1 is
\* spent on its DIDRegistry
RegistryAddresses ==
    {registry0} \cup {createAddress(factory, n) : n \in 2..(MaxRegistries + 1)}
\* the accounts that call the factory and the registries it created: the
\* deployer of the factory and an account that deploys nothing
FactoryCallers == {"deployer", "alice"}
\* the one (did, credentialHash, metadataURI), (schemaId, schemaURI),
\* (userDid, verifierDid, purpose), consent terms, role grantee or new
\* owner, and (name, description) of createRegistry and of updateMetadata
\* used where several registries are explored
FactoryCredential == <<"a", "c", "ipfs://m">>
FactorySchema == <<"s1", "ipfs://u1">>
FactoryConsent == <<"a", "b", "p">>
FactoryTerms == <<"email", "ReadOnly", 0>>
FactoryGrantee == "alice"
FactoryCreateMetadata == <<"registry", "">>
FactoryUpdateMetadata == <<"registry 2", "renamed">>

\* the arguments used where every write of a registry and of the factory is
\* explored together: well-formed ones, with "" for metadataURI and for
\* dataCategories, which are not required, and one with "" for each
\* required string
SSICredentialInputs ==
    {<<"a", "c", "">>, <<"", "c", "ipfs://m">>, <<"a", "", "ipfs://m">>}
SSISchemaInputs == {<<"s1", "ipfs://u1">>, <<"", "ipfs://u1">>, <<"s1", "">>}
SSIConsentInputs ==
    {<<"a", "b", "p", "">>, <<"", "b", "p", "email">>, <<"a", "", "p", "email">>,
     <<"a", "b", "", "email">>}

\* (did, credentialHash) arguments; ("a","bc") and ("ab","c") have the same
\* packed encoding, ("", "c") and ("a", "") have an empty component
CredentialInputs ==
    {<<"a", "bc">>, <<"ab", "c">>, <<"a", "c">>, <<"", "c">>, <<"a", "">>}
MetadataURIs == {"", "ipfs://m"}
\* the (did, credentialHash) arguments of the transactions in flight
ConcurrentInputs == {<<"a", "bc">>, <<"ab", "c">>, <<"a", "c">>}

\* (userDid, verifierDid, purpose) arguments; ("al","ice","p") and
\* ("a","lice","p") have the same packed encoding, the last three have an
\* empty component
ConsentInputs ==
    {<<"al", "ice", "p">>, <<"a", "lice", "p">>, <<"a", "b", "p">>,
     <<"", "b", "p">>, <<"a", "", "p">>, <<"a", "b", "">>}
\* the (userDid, verifierDid, purpose) arguments with no empty component
ExpiryInputs == {<<"al", "ice", "p">>, <<"a", "lice", "p">>, <<"a", "b", "p">>}
\* enum AccessLevel
AccessLevel == {"ReadOnly", "ReadWrite", "FullAccess", "OneTime"}
\* (dataCategories, accessLevel, expiresAt) arguments: expiresAt is never (0)
\* or an early ledger time
ConsentTerms ==
    {<<"email", "ReadOnly", 0>>, <<"email", "ReadOnly", 1>>,
     <<"email,phone", "FullAccess", 2>>}
\* the accounts that call the consent registry: the deployer (owner and
\* verifier) and an account with neither role nor ownership
ConsentCallers == {"deployer", "alice"}

\* (schemaId, schemaURI) arguments; "" is the empty string
SchemaIds == {"s1", "s2", ""}
SchemaURIs == {"ipfs://u1", "ipfs://u2", ""}

\* keccak256, collision free: distinct byte strings have distinct digests
keccak256(bytes) == <<"keccak256", bytes>>

\* ---------------------------------------------------------- AccessControl
VERIFIER_ROLE == keccak256("VERIFIER_ROLE")
ISSUER_ROLE == keccak256("ISSUER_ROLE")
Roles == {VERIFIER_ROLE, ISSUER_ROLE}

OK == "ok"

VARIABLES
    _roles,        \* mapping(bytes32 => mapping(address => bool))
    _owner,        \* address
    _credentials,  \* mapping(bytes32 => Credential)
    now,           \* block.timestamp
    last,          \* the receipt of the last mined transaction: [op, result]
    registered,    \* history: the (did, hash) pairs registerCredential succeeded on
    revoked,       \* history: the (did, hash) pairs revokeCredential succeeded on
    nSteps,        \* history: the number of steps taken so far
    mempool,       \* registerCredential transactions in flight (SpecConcurrent)
    _consents,     \* mapping(bytes32 => ConsentRecord)
    consentCalls,  \* history: per consent key, the successful grants and revokes
    _schemas,      \* mapping(string => Schema)
    _schemaIds,    \* string[]
    schemaLog,     \* event log: per schemaId, its SchemaRegistered and SchemaUpdated events
    roleEvents,    \* event log: per (role, account), the RoleGranted / RoleRevoked events
    ownerEvents,   \* event log: the OwnershipTransferred(previousOwner, newOwner) events
    name,          \* string public name
    description,   \* string public description
    didRegistry,   \* DIDRegistry public didRegistry
    this,          \* the registry whose storage the variables above hold
    instances,     \* the storage of every other deployed registry, by address
    _registries,   \* SSIRegistryFactory: address[] private _registries
    factoryDidRegistry  \* SSIRegistryFactory: DIDRegistry public immutable didRegistry

\* the storage and history of each registry
credentialState == <<_credentials, registered, revoked, mempool>>
consentState == <<_consents, consentCalls>>
schemaState == <<_schemas, _schemaIds, schemaLog>>
accessEvents == <<roleEvents, ownerEvents>>
metadataState == <<name, description, didRegistry>>
factoryState == <<this, instances, _registries, factoryDidRegistry>>

vars ==
    <<_roles, _owner, _credentials, now, last, registered, revoked, nSteps, mempool,
      _consents, consentCalls, _schemas, _schemaIds, schemaLog,
      roleEvents, ownerEvents, name, description, didRegistry,
      this, instances, _registries, factoryDidRegistry>>

\* abi.encodePacked of two strings: the bytes of the first followed by the
\* bytes of the second, with no length prefix and no separator
encodePacked(a, b) == a \o b

_generateCredentialId(did, credentialHash) ==
    keccak256(encodePacked(did, credentialHash))

CredentialIds == {_generateCredentialId(p[1], p[2]) : p \in CredentialInputs}

\* the value of an unwritten storage slot of mapping _credentials
Credential0 ==
    [isRegistered |-> FALSE, isRevoked |-> FALSE, registeredAt |-> 0,
     revokedAt |-> 0, registeredBy |-> address0, revokedBy |-> address0,
     metadataURI |-> ""]

\* abi.encodePacked of three strings
encodePacked3(a, b, c) == a \o b \o c

_generateConsentKey(userDid, verifierDid, purpose) ==
    keccak256(encodePacked3(userDid, verifierDid, purpose))

ConsentKeys == {_generateConsentKey(t[1], t[2], t[3]) : t \in ConsentInputs}

\* the value of an unwritten storage slot of mapping _consents
ConsentRecord0 ==
    [isRegistered |-> FALSE, isRevoked |-> FALSE, registeredAt |-> 0,
     revokedAt |-> 0, registeredBy |-> address0, revokedBy |-> address0,
     expiresAt |-> 0, purpose |-> "", dataCategories |-> "",
     accessLevel |-> "ReadOnly"]

\* the value of an unwritten storage slot of mapping _schemas
Schema0 ==
    [schemaURI |-> "", isRegistered |-> FALSE, registeredAt |-> 0,
     updatedAt |-> 0, registeredBy |-> address0, updatedBy |-> address0,
     version |-> 0]

hasRole(role, account) == _roles[role][account]

owner == _owner

\* onlyRole with a plausible slip: the owner passes every role check
onlyRole_OwnerPasses(role, sender) ==
    IF sender = _owner \/ hasRole(role, sender)
    THEN OK ELSE "AccessControl: missing role"

\* modifier onlyRole(role): the revert string, or OK
onlyRole(role, sender) ==
    IF hasRole(role, sender) THEN OK ELSE "AccessControl: missing role"

\* modifier onlyOwner
onlyOwner(sender) ==
    IF sender = _owner THEN OK ELSE "AccessControl: not owner"

\* _grantRole / _revokeRole: the new value of _roles
_grantRole(role, account) ==
    IF ~hasRole(role, account)
    THEN [_roles EXCEPT ![role][account] = TRUE]
    ELSE _roles

_revokeRole(role, account) ==
    IF hasRole(role, account)
    THEN [_roles EXCEPT ![role][account] = FALSE]
    ELSE _roles

\* _grantRoleEmit with a plausible slip: RoleGranted is emitted outside the if
_grantRoleEmit_Always(role, account) ==
    [roleEvents EXCEPT ![role][account] = Append(@, "RoleGranted")]

\* the events of _grantRole / _revokeRole: the new value of the event log
_grantRoleEmit(role, account) ==
    IF ~hasRole(role, account)
    THEN [roleEvents EXCEPT ![role][account] = Append(@, "RoleGranted")]
    ELSE roleEvents

_revokeRoleEmit(role, account) ==
    IF hasRole(role, account)
    THEN [roleEvents EXCEPT ![role][account] = Append(@, "RoleRevoked")]
    ELSE roleEvents

\* what is observed of a mined transaction: the function called and its
\* outcome (OK, or the revert string)
Receipt(op, result) == [op |-> op, result |-> result]

\* an empty slot of the mempool
NoTx ==
    [sender |-> address0, did |-> "", credentialHash |-> "", metadataURI |-> "",
     result |-> "none"]

\* one more step taken; at most MaxSteps are explored
Step == nSteps < MaxSteps /\ nSteps' = nSteps + 1

\* ------------------------------------------------------------------- Init
\* the storage of an address without code: every slot reads zero
NoContract ==
    [code |-> FALSE,
     _roles |-> [r \in Roles |-> [a \in Accounts |-> FALSE]],
     _owner |-> address0,
     _credentials |-> [id \in CredentialIds |-> Credential0],
     registered |-> {}, revoked |-> {},
     _consents |-> [k \in ConsentKeys |-> ConsentRecord0],
     consentCalls |-> [k \in ConsentKeys |-> [grants |-> 0, revokes |-> 0]],
     _schemas |-> [id \in SchemaIds |-> Schema0],
     _schemaIds |-> <<>>, schemaLog |-> [id \in SchemaIds |-> <<>>],
     roleEvents |-> [r \in Roles |-> [a \in Accounts |-> <<>>]],
     ownerEvents |-> <<>>, name |-> "", description |-> "",
     didRegistry |-> address0]

\* the constructor with a plausible slip: the deployer is made an Issuer too
constructorRoles_IssuerToo(sender) ==
    [r \in Roles |-> [a \in Accounts |-> a = sender]]

\* the role mapping the constructor of AccessControl leaves: all false, and
\* then _grantRole(VERIFIER_ROLE, msg.sender)
constructorRoles(sender) ==
    [r \in Roles |-> [a \in Accounts |-> r = VERIFIER_ROLE /\ a = sender]]

\* the state after the constructor of AccessControl has run for `deployer`
Init ==
    /\ _roles = constructorRoles(deployer)
    /\ _owner = deployer
    /\ _credentials = [id \in CredentialIds |-> Credential0]
    /\ now = 1
    /\ last = Receipt("constructor", OK)
    /\ registered = {}
    /\ revoked = {}
    /\ nSteps = 0
    /\ mempool = [i \in 1..MaxPending |-> NoTx]
    /\ _consents = [k \in ConsentKeys |-> ConsentRecord0]
    /\ consentCalls = [k \in ConsentKeys |-> [grants |-> 0, revokes |-> 0]]
    /\ _schemas = [id \in SchemaIds |-> Schema0]
    /\ _schemaIds = <<>>
    /\ schemaLog = [id \in SchemaIds |-> <<>>]
    /\ roleEvents = [r \in Roles |-> [a \in Accounts |->
                        IF r = VERIFIER_ROLE /\ a = deployer
                        THEN <<"RoleGranted">> ELSE <<>>]]
    /\ ownerEvents = <<<<address0, deployer>>>>
    /\ name = "registry"
    /\ description = ""
    /\ didRegistry = didRegistry0
    /\ this = registry0
    /\ instances = [r \in {} |-> NoContract]
    /\ _registries = <<>>
    /\ factoryDidRegistry = didRegistry0

\* ---------------------------------------------------- CredentialRegistry
\* registerCredentialRequire with a plausible slip: the "Already registered"
\* require is missing
registerCredentialRequire_NoWriteOnce(sender, did, credentialHash) ==
    IF ~hasRole(ISSUER_ROLE, sender) THEN "AccessControl: missing role"
    ELSE IF ~(Len(did) > 0) THEN "Empty DID"
    ELSE IF ~(Len(credentialHash) > 0) THEN "Empty hash"
    ELSE OK

\* registerCredentialRequire with a plausible slip: a revoked credential may
\* be registered again (the reactivation rule of the consent registry)
registerCredentialRequire_ReRegisterRevoked(sender, did, credentialHash) ==
    LET c == _credentials[keccak256(encodePacked(did, credentialHash))] IN
    IF ~hasRole(ISSUER_ROLE, sender) THEN "AccessControl: missing role"
    ELSE IF ~(Len(did) > 0) THEN "Empty DID"
    ELSE IF ~(Len(credentialHash) > 0) THEN "Empty hash"
    ELSE IF c.isRegistered /\ ~c.isRevoked THEN "Already registered"
    ELSE OK

\* registerCredentialRequire with a plausible slip: the onlyRole(ISSUER_ROLE)
\* modifier is missing
registerCredentialRequire_NoRoleCheck(sender, did, credentialHash) ==
    IF ~(Len(did) > 0) THEN "Empty DID"
    ELSE IF ~(Len(credentialHash) > 0) THEN "Empty hash"
    ELSE IF _credentials[keccak256(encodePacked(did, credentialHash))].isRegistered
         THEN "Already registered"
    ELSE OK

\* the first failing require of registerCredential, or OK
registerCredentialRequire(sender, did, credentialHash) ==
    IF onlyRole(ISSUER_ROLE, sender) # OK THEN onlyRole(ISSUER_ROLE, sender)
    ELSE IF ~(Len(did) > 0) THEN "Empty DID"
    ELSE IF ~(Len(credentialHash) > 0) THEN "Empty hash"
    ELSE IF ~(~_credentials[_generateCredentialId(did, credentialHash)].isRegistered)
         THEN "Already registered"
    ELSE OK

\* registerCredentialWrite with a plausible slip: the new record is stored
\* with isRegistered left false
registerCredentialWrite_FlagNotSet(sender, did, credentialHash, metadataURI) ==
    [_credentials EXCEPT ![keccak256(encodePacked(did, credentialHash))] =
        [isRegistered |-> FALSE, isRevoked |-> FALSE, registeredAt |-> now,
         revokedAt |-> 0, registeredBy |-> sender, revokedBy |-> address0,
         metadataURI |-> metadataURI]]

\* the storage write of registerCredential
registerCredentialWrite(sender, did, credentialHash, metadataURI) ==
    [_credentials EXCEPT ![_generateCredentialId(did, credentialHash)] =
        [isRegistered |-> TRUE, isRevoked |-> FALSE, registeredAt |-> now,
         revokedAt |-> 0, registeredBy |-> sender, revokedBy |-> address0,
         metadataURI |-> metadataURI]]

\* one execution of registerCredential: everything or, on a revert, nothing
registerCredentialCall(sender, did, credentialHash, metadataURI) ==
    LET r == registerCredentialRequire(sender, did, credentialHash) IN
    /\ last' = Receipt("registerCredential", r)
    /\ registered' =
          IF r = OK THEN registered \cup {<<did, credentialHash>>} ELSE registered
    /\ _credentials' =
          IF r = OK
          THEN registerCredentialWrite(sender, did, credentialHash, metadataURI)
          ELSE _credentials
    /\ UNCHANGED <<_roles, _owner, now, revoked, consentState, schemaState,
                    accessEvents, metadataState, factoryState>>

registerCredential(sender, did, credentialHash, metadataURI) ==
    /\ registerCredentialCall(sender, did, credentialHash, metadataURI)
    /\ Step
    /\ UNCHANGED mempool

\* revokeCredentialRequire with a plausible slip: the registrant-or-verifier
\* require is missing
revokeCredentialRequire_NoAuth(sender, did, credentialHash) ==
    LET credentialId == keccak256(encodePacked(did, credentialHash)) IN
    IF ~hasRole(ISSUER_ROLE, sender) THEN "AccessControl: missing role"
    ELSE IF ~_credentials[credentialId].isRegistered THEN "Not registered"
    ELSE IF _credentials[credentialId].isRevoked THEN "Already revoked"
    ELSE OK

\* the first failing require of revokeCredential, or OK
revokeCredentialRequire(sender, did, credentialHash) ==
    LET credentialId == _generateCredentialId(did, credentialHash) IN
    IF onlyRole(ISSUER_ROLE, sender) # OK THEN onlyRole(ISSUER_ROLE, sender)
    ELSE IF ~_credentials[credentialId].isRegistered THEN "Not registered"
    ELSE IF ~(~_credentials[credentialId].isRevoked) THEN "Already revoked"
    ELSE IF ~(\/ _credentials[credentialId].registeredBy = sender
              \/ hasRole(VERIFIER_ROLE, sender))
         THEN "Unauthorized"
    ELSE OK

\* the storage writes of revokeCredential
revokeCredentialWrite(sender, did, credentialHash) ==
    [_credentials EXCEPT
        ![_generateCredentialId(did, credentialHash)].isRevoked = TRUE,
        ![_generateCredentialId(did, credentialHash)].revokedAt = now,
        ![_generateCredentialId(did, credentialHash)].revokedBy = sender]

\* revokeCredential with a plausible slip: the revocation cascades to the
\* consent ledger and revokes every live consent
revokeCredential_CascadesToConsents(sender, did, credentialHash) ==
    LET r == revokeCredentialRequire(sender, did, credentialHash) IN
    /\ last' = Receipt("revokeCredential", r)
    /\ revoked' =
          IF r = OK THEN revoked \cup {<<did, credentialHash>>} ELSE revoked
    /\ _credentials' =
          IF r = OK
          THEN revokeCredentialWrite(sender, did, credentialHash)
          ELSE _credentials
    /\ _consents' =
          IF r = OK
          THEN [k \in ConsentKeys |->
                  IF _consents[k].isRegistered /\ ~_consents[k].isRevoked
                  THEN [_consents[k] EXCEPT !.isRevoked = TRUE, !.revokedAt = now,
                                            !.revokedBy = sender]
                  ELSE _consents[k]]
          ELSE _consents
    /\ Step
    /\ UNCHANGED <<_roles, _owner, now, registered, mempool, consentCalls, schemaState,
                    accessEvents, metadataState, factoryState>>

revokeCredential(sender, did, credentialHash) ==
    LET r == revokeCredentialRequire(sender, did, credentialHash) IN
    /\ last' = Receipt("revokeCredential", r)
    /\ revoked' =
          IF r = OK THEN revoked \cup {<<did, credentialHash>>} ELSE revoked
    /\ _credentials' =
          IF r = OK
          THEN revokeCredentialWrite(sender, did, credentialHash)
          ELSE _credentials
    /\ Step
    /\ UNCHANGED <<_roles, _owner, now, registered, mempool, consentState, schemaState,
                    accessEvents, metadataState, factoryState>>

\* view functions
isCredentialValid(did, credentialHash) ==
    /\ _credentials[_generateCredentialId(did, credentialHash)].isRegistered
    /\ ~_credentials[_generateCredentialId(did, credentialHash)].isRevoked

getCredentialInfo(did, credentialHash) ==
    _credentials[_generateCredentialId(did, credentialHash)]

\* ---------------------------------------------------------- AccessControl
grantRole(sender, role, account) ==
    LET r == onlyRole(VERIFIER_ROLE, sender) IN
    /\ _roles' = IF r = OK THEN _grantRole(role, account) ELSE _roles
    /\ roleEvents' = IF r = OK THEN _grantRoleEmit(role, account) ELSE roleEvents
    /\ Step
    /\ last' = Receipt("grantRole", r)
    /\ UNCHANGED <<_owner, now, credentialState, consentState, schemaState,
                    ownerEvents, metadataState, factoryState>>

revokeRole(sender, role, account) ==
    LET r == onlyRole(VERIFIER_ROLE, sender) IN
    /\ _roles' = IF r = OK THEN _revokeRole(role, account) ELSE _roles
    /\ roleEvents' = IF r = OK THEN _revokeRoleEmit(role, account) ELSE roleEvents
    /\ Step
    /\ last' = Receipt("revokeRole", r)
    /\ UNCHANGED <<_owner, now, credentialState, consentState, schemaState,
                    ownerEvents, metadataState, factoryState>>

transferOwnershipRequire(sender, newOwner) ==
    IF onlyOwner(sender) # OK THEN onlyOwner(sender)
    ELSE IF ~(newOwner # address0) THEN "AccessControl: zero address"
    ELSE OK

\* transferOwnership with a plausible slip: the Verifier role is handed to
\* the new owner together with the ownership
transferOwnership_HandsOverRole(sender, newOwner) ==
    LET r == transferOwnershipRequire(sender, newOwner) IN
    /\ _owner' = IF r = OK THEN newOwner ELSE _owner
    /\ ownerEvents' =
          IF r = OK THEN Append(ownerEvents, <<_owner, newOwner>>) ELSE ownerEvents
    /\ _roles' = IF r = OK THEN _grantRole(VERIFIER_ROLE, newOwner) ELSE _roles
    /\ Step
    /\ last' = Receipt("transferOwnership", r)
    /\ UNCHANGED <<now, credentialState, consentState, schemaState,
                    roleEvents, metadataState, factoryState>>

transferOwnership(sender, newOwner) ==
    LET r == transferOwnershipRequire(sender, newOwner) IN
    /\ _owner' = IF r = OK THEN newOwner ELSE _owner
    /\ ownerEvents' =
          IF r = OK THEN Append(ownerEvents, <<_owner, newOwner>>) ELSE ownerEvents
    /\ Step
    /\ last' = Receipt("transferOwnership", r)
    /\ UNCHANGED <<_roles, now, credentialState, consentState, schemaState,
                    roleEvents, metadataState, factoryState>>

\* a later block: block.timestamp increases; no transaction mined in it yet
Tick ==
    /\ Step
    /\ now' = now + 1
    /\ last' = Receipt("block", OK)
    /\ UNCHANGED <<_roles, _owner, credentialState, consentState, schemaState,
                    accessEvents, metadataState, factoryState>>

Next ==
    \/ \E s \in Address, p \in CredentialInputs, m \in MetadataURIs :
          registerCredential(s, p[1], p[2], m)
    \/ \E s \in Address, p \in CredentialInputs : revokeCredential(s, p[1], p[2])
    \/ \E s \in Address, r \in Roles, a \in Address : grantRole(s, r, a)
    \/ \E s \in Address, r \in Roles, a \in Address : revokeRole(s, r, a)
    \/ \E s \in Address, n \in Address \cup {address0} : transferOwnership(s, n)
    \/ Tick

Spec == Init /\ [][Next]_vars

\* ------------------------------------------------- concurrent registration
\* Callers sign and broadcast registerCredential transactions; they wait in
\* the mempool and are mined one at a time, in any order, while the deployer
\* (the one verifier) admits issuers in between.

\* a caller broadcasts a transaction: nothing is executed yet
broadcast(i, sender, did, credentialHash, metadataURI) ==
    /\ mempool[i].result = "none"
    /\ IF i = 1 THEN TRUE ELSE mempool[i - 1].result # "none"
    /\ mempool' = [mempool EXCEPT ![i] =
          [sender |-> sender, did |-> did, credentialHash |-> credentialHash,
           metadataURI |-> metadataURI, result |-> "pending"]]
    /\ UNCHANGED <<_roles, _owner, _credentials, now, last, registered, revoked,
                    nSteps, consentState, schemaState, accessEvents, metadataState,
                    factoryState>>

\* a pending transaction is mined: registerCredential runs to completion
mine(i) ==
    /\ mempool[i].result = "pending"
    /\ registerCredentialCall(mempool[i].sender, mempool[i].did,
                              mempool[i].credentialHash, mempool[i].metadataURI)
    /\ mempool' = [mempool EXCEPT ![i].result =
          registerCredentialRequire(mempool[i].sender, mempool[i].did,
                                    mempool[i].credentialHash)]
    /\ UNCHANGED nSteps

NextConcurrent ==
    \/ \E i \in 1..MaxPending, s \in Address, p \in ConcurrentInputs :
          broadcast(i, s, p[1], p[2], "")
    \/ \E i \in 1..MaxPending : mine(i)
    \/ \E a \in Address : grantRole(deployer, ISSUER_ROLE, a)

SpecConcurrent == Init /\ [][NextConcurrent]_vars

\* ------------------------------------------------------------ SSIRegistry
\* the modifier of a role wrapper (addIssuer, ...) and then the modifier of
\* the grantRole / revokeRole it calls, both onlyRole(VERIFIER_ROLE) for the
\* same msg.sender
roleWrapperRequire_OwnerToo(sender) ==
    IF sender = _owner THEN OK ELSE onlyRole(VERIFIER_ROLE, sender)

roleWrapperRequire(sender) ==
    IF onlyRole(VERIFIER_ROLE, sender) # OK THEN onlyRole(VERIFIER_ROLE, sender)
    ELSE onlyRole(VERIFIER_ROLE, sender)

addIssuer(sender, issuer) ==
    LET r == roleWrapperRequire(sender) IN
    /\ last' = Receipt("addIssuer", r)
    /\ _roles' = IF r = OK THEN _grantRole(ISSUER_ROLE, issuer) ELSE _roles
    /\ roleEvents' = IF r = OK THEN _grantRoleEmit(ISSUER_ROLE, issuer) ELSE roleEvents
    /\ Step
    /\ UNCHANGED <<_owner, now, credentialState, consentState, schemaState,
                    ownerEvents, metadataState, factoryState>>

removeIssuer(sender, issuer) ==
    LET r == roleWrapperRequire(sender) IN
    /\ last' = Receipt("removeIssuer", r)
    /\ _roles' = IF r = OK THEN _revokeRole(ISSUER_ROLE, issuer) ELSE _roles
    /\ roleEvents' = IF r = OK THEN _revokeRoleEmit(ISSUER_ROLE, issuer) ELSE roleEvents
    /\ Step
    /\ UNCHANGED <<_owner, now, credentialState, consentState, schemaState,
                    ownerEvents, metadataState, factoryState>>

addVerifier(sender, verifier) ==
    LET r == roleWrapperRequire(sender) IN
    /\ last' = Receipt("addVerifier", r)
    /\ _roles' = IF r = OK THEN _grantRole(VERIFIER_ROLE, verifier) ELSE _roles
    /\ roleEvents' = IF r = OK THEN _grantRoleEmit(VERIFIER_ROLE, verifier) ELSE roleEvents
    /\ Step
    /\ UNCHANGED <<_owner, now, credentialState, consentState, schemaState,
                    ownerEvents, metadataState, factoryState>>

removeVerifier(sender, verifier) ==
    LET r == roleWrapperRequire(sender) IN
    /\ last' = Receipt("removeVerifier", r)
    /\ _roles' = IF r = OK THEN _revokeRole(VERIFIER_ROLE, verifier) ELSE _roles
    /\ roleEvents' = IF r = OK THEN _revokeRoleEmit(VERIFIER_ROLE, verifier) ELSE roleEvents
    /\ Step
    /\ UNCHANGED <<_owner, now, credentialState, consentState, schemaState,
                    ownerEvents, metadataState, factoryState>>

isIssuer(issuer) == hasRole(ISSUER_ROLE, issuer)

isVerifier(verifier) == hasRole(VERIFIER_ROLE, verifier)

\* updateMetadata with a plausible slip: the onlyOwner modifier is missing
updateMetadataRequire_NoOwnerCheck(sender) == OK

updateMetadataRequire(sender) == onlyOwner(sender)

\* updateMetadata with a plausible slip: the name is written before the
\* owner is checked and the failure only reported
updateMetadata_WriteBeforeCheck(sender, _name, _description) ==
    LET r == updateMetadataRequire(sender) IN
    /\ last' = Receipt("updateMetadata", r)
    /\ name' = _name
    /\ description' = IF r = OK THEN _description ELSE description
    /\ Step
    /\ UNCHANGED <<_roles, _owner, now, didRegistry, credentialState, consentState,
                    schemaState, accessEvents, factoryState>>

updateMetadata(sender, _name, _description) ==
    LET r == updateMetadataRequire(sender) IN
    /\ last' = Receipt("updateMetadata", r)
    /\ name' = IF r = OK THEN _name ELSE name
    /\ description' = IF r = OK THEN _description ELSE description
    /\ Step
    /\ UNCHANGED <<_roles, _owner, now, didRegistry, credentialState, consentState,
                    schemaState, accessEvents, factoryState>>

\* role, ownership and metadata management of one registry
NextRoles ==
    \/ \E s \in Address, r \in Roles, a \in Address : grantRole(s, r, a)
    \/ \E s \in Address, r \in Roles, a \in Address : revokeRole(s, r, a)
    \/ \E s \in Address, a \in Address : addIssuer(s, a)
    \/ \E s \in Address, a \in Address : removeIssuer(s, a)
    \/ \E s \in Address, a \in Address : addVerifier(s, a)
    \/ \E s \in Address, a \in Address : removeVerifier(s, a)
    \/ \E s \in Address, n \in Address \cup {address0} : transferOwnership(s, n)
    \/ \E s \in Address, m \in RegistryMetadata : updateMetadata(s, m[1], m[2])

SpecRoles == Init /\ [][NextRoles]_vars

\* -------------------------------------------------------- ConsentRegistry
\* grantConsentRequire with a plausible slip: the write-once require of the
\* credential registry is copied in, so a key can be granted only once
grantConsentRequire_WriteOnce(sender, userDid, verifierDid, purpose, expiresAt) ==
    IF ~(Len(userDid) > 0) THEN "Empty user DID"
    ELSE IF ~(Len(verifierDid) > 0) THEN "Empty verifier DID"
    ELSE IF ~(Len(purpose) > 0) THEN "Empty purpose"
    ELSE IF _consents[keccak256(userDid \o verifierDid \o purpose)].isRegistered
         THEN "Already registered"
    ELSE OK

\* grantConsentRequire with a plausible slip: an expiry in the past is
\* rejected at grant time
grantConsentRequire_ExpiryChecked(sender, userDid, verifierDid, purpose, expiresAt) ==
    IF ~(Len(userDid) > 0) THEN "Empty user DID"
    ELSE IF ~(Len(verifierDid) > 0) THEN "Empty verifier DID"
    ELSE IF ~(Len(purpose) > 0) THEN "Empty purpose"
    ELSE IF ~(expiresAt = 0 \/ expiresAt >= now) THEN "Already expired"
    ELSE OK

\* the first failing require of grantConsent, or OK; the function carries no
\* modifier and reads neither msg.sender nor expiresAt before it writes
grantConsentRequire(sender, userDid, verifierDid, purpose, expiresAt) ==
    IF ~(Len(userDid) > 0) THEN "Empty user DID"
    ELSE IF ~(Len(verifierDid) > 0) THEN "Empty verifier DID"
    ELSE IF ~(Len(purpose) > 0) THEN "Empty purpose"
    ELSE OK

\* grantConsentRecord with a plausible slip: the reactivation branch is
\* missing, the grant is written over the record as it is
grantConsentRecord_NoReactivate(c, sender, purpose, dataCategories, accessLevel, expiresAt) ==
    [c EXCEPT
        !.isRegistered = TRUE, !.registeredAt = now, !.registeredBy = sender,
        !.expiresAt = expiresAt, !.purpose = purpose,
        !.dataCategories = dataCategories, !.accessLevel = accessLevel]

\* grantConsentRecord with a plausible slip: the terms of a live record are
\* kept, only a new or a revoked record takes those of the call
grantConsentRecord_KeepsLiveTerms(c, sender, purpose, dataCategories, accessLevel, expiresAt) ==
    IF c.isRegistered /\ ~c.isRevoked
    THEN [c EXCEPT !.registeredAt = now, !.registeredBy = sender]
    ELSE [c EXCEPT
            !.isRevoked = FALSE, !.revokedAt = 0, !.revokedBy = address0,
            !.isRegistered = TRUE, !.registeredAt = now, !.registeredBy = sender,
            !.expiresAt = expiresAt, !.purpose = purpose,
            !.dataCategories = dataCategories, !.accessLevel = accessLevel]

\* grantConsentRecord with a plausible slip: the reactivation clears the
\* flag and leaves revokedAt and revokedBy
grantConsentRecord_FlagOnlyReactivate(c, sender, purpose, dataCategories, accessLevel, expiresAt) ==
    [c EXCEPT
        !.isRevoked = FALSE,
        !.isRegistered = TRUE, !.registeredAt = now, !.registeredBy = sender,
        !.expiresAt = expiresAt, !.purpose = purpose,
        !.dataCategories = dataCategories, !.accessLevel = accessLevel]

\* the record grantConsent leaves under its key: a revoked record is
\* reactivated first, then the grant is written over it
grantConsentRecord(c, sender, purpose, dataCategories, accessLevel, expiresAt) ==
    LET reactivated ==
          IF c.isRegistered /\ c.isRevoked
          THEN [c EXCEPT !.isRevoked = FALSE, !.revokedAt = 0,
                         !.revokedBy = address0]
          ELSE c
    IN [reactivated EXCEPT
          !.isRegistered = TRUE, !.registeredAt = now, !.registeredBy = sender,
          !.expiresAt = expiresAt, !.purpose = purpose,
          !.dataCategories = dataCategories, !.accessLevel = accessLevel]

\* the storage writes of grantConsent
grantConsentWrite(sender, userDid, verifierDid, purpose, dataCategories, accessLevel, expiresAt) ==
    LET key == _generateConsentKey(userDid, verifierDid, purpose) IN
    [_consents EXCEPT ![key] =
        grantConsentRecord(_consents[key], sender, purpose, dataCategories,
                           accessLevel, expiresAt)]

grantConsent(sender, userDid, verifierDid, purpose, dataCategories, accessLevel, expiresAt) ==
    LET r == grantConsentRequire(sender, userDid, verifierDid, purpose, expiresAt)
        key == _generateConsentKey(userDid, verifierDid, purpose)
    IN
    /\ last' = Receipt("grantConsent", r)
    /\ _consents' =
          IF r = OK
          THEN grantConsentWrite(sender, userDid, verifierDid, purpose,
                                 dataCategories, accessLevel, expiresAt)
          ELSE _consents
    /\ consentCalls' =
          IF r = OK
          THEN [consentCalls EXCEPT ![key].grants = @ + 1]
          ELSE consentCalls
    /\ Step
    /\ UNCHANGED <<_roles, _owner, now, credentialState, schemaState,
                    accessEvents, metadataState, factoryState>>

\* revokeConsentRequire with a plausible slip: only the account that granted
\* the consent may revoke it
revokeConsentRequire_OnlyRegistrant(sender, userDid, verifierDid, purpose) ==
    LET c == _consents[keccak256(userDid \o verifierDid \o purpose)] IN
    IF ~c.isRegistered THEN "Consent not found"
    ELSE IF c.isRevoked THEN "Already revoked"
    ELSE IF c.registeredBy # sender THEN "Unauthorized"
    ELSE OK

\* revokeConsentRequire with a plausible slip: the "Already revoked" require
\* is missing
revokeConsentRequire_NoRevokedCheck(sender, userDid, verifierDid, purpose) ==
    IF ~_consents[keccak256(userDid \o verifierDid \o purpose)].isRegistered
    THEN "Consent not found"
    ELSE OK

\* the first failing require of revokeConsent, or OK; no modifier
revokeConsentRequire(sender, userDid, verifierDid, purpose) ==
    LET key == _generateConsentKey(userDid, verifierDid, purpose) IN
    IF ~_consents[key].isRegistered THEN "Consent not found"
    ELSE IF ~(~_consents[key].isRevoked) THEN "Already revoked"
    ELSE OK

\* the storage writes of revokeConsent
revokeConsentWrite(sender, userDid, verifierDid, purpose) ==
    LET key == _generateConsentKey(userDid, verifierDid, purpose) IN
    [_consents EXCEPT ![key].isRevoked = TRUE, ![key].revokedAt = now,
                      ![key].revokedBy = sender]

revokeConsent(sender, userDid, verifierDid, purpose) ==
    LET r == revokeConsentRequire(sender, userDid, verifierDid, purpose)
        key == _generateConsentKey(userDid, verifierDid, purpose)
    IN
    /\ last' = Receipt("revokeConsent", r)
    /\ _consents' =
          IF r = OK
          THEN revokeConsentWrite(sender, userDid, verifierDid, purpose)
          ELSE _consents
    /\ consentCalls' =
          IF r = OK
          THEN [consentCalls EXCEPT ![key].revokes = @ + 1]
          ELSE consentCalls
    /\ Step
    /\ UNCHANGED <<_roles, _owner, now, credentialState, schemaState,
                    accessEvents, metadataState, factoryState>>

\* isConsentValidAt with a plausible slip: the expiry comparison is >=, so
\* the consent is already invalid at its expiry time
isConsentValidAt_StrictExpiry(consents, at, userDid, verifierDid, purpose) ==
    LET c == consents[keccak256(userDid \o verifierDid \o purpose)] IN
    IF ~c.isRegistered \/ c.isRevoked THEN FALSE
    ELSE IF c.expiresAt > 0 /\ at >= c.expiresAt THEN FALSE
    ELSE TRUE

\* view function isConsentValid, read at ledger time `at` from the records
\* `consents`
\* isConsentValidAt with a plausible slip: the expiry is not looked at
isConsentValidAt_ExpiryIgnored(consents, at, userDid, verifierDid, purpose) ==
    LET key == _generateConsentKey(userDid, verifierDid, purpose) IN
    IF ~consents[key].isRegistered \/ consents[key].isRevoked THEN FALSE
    ELSE TRUE

isConsentValidAt(consents, at, userDid, verifierDid, purpose) ==
    LET key == _generateConsentKey(userDid, verifierDid, purpose) IN
    IF ~consents[key].isRegistered \/ consents[key].isRevoked THEN FALSE
    ELSE IF consents[key].expiresAt > 0 /\ at > consents[key].expiresAt THEN FALSE
    ELSE TRUE

isConsentValid(userDid, verifierDid, purpose) ==
    isConsentValidAt(_consents, now, userDid, verifierDid, purpose)

\* the consent registry in use: any account grants and revokes, blocks pass
NextConsent ==
    \/ \E s \in ConsentCallers, t \in ConsentInputs, c \in ConsentTerms :
          grantConsent(s, t[1], t[2], t[3], c[1], c[2], c[3])
    \/ \E s \in ConsentCallers, t \in ConsentInputs :
          revokeConsent(s, t[1], t[2], t[3])
    \/ Tick

SpecConsent == Init /\ [][NextConsent]_vars

\* the consent registry inside an SSIRegistry: well-formed grants and revokes
\* by any account, Issuer management by any account, blocks pass
NextExpiry ==
    \/ \E s \in ConsentCallers, t \in ExpiryInputs, c \in ConsentTerms :
          grantConsent(s, t[1], t[2], t[3], c[1], c[2], c[3])
    \/ \E s \in ConsentCallers, t \in ExpiryInputs :
          revokeConsent(s, t[1], t[2], t[3])
    \/ \E s \in ConsentCallers : addIssuer(s, FactoryGrantee)
    \/ \E s \in ConsentCallers : removeIssuer(s, FactoryGrantee)
    \/ Tick

SpecExpiry == Init /\ [][NextExpiry]_vars

\* --------------------------------------------------------- SchemaRegistry
\* _updateSchemaRequire with a plausible slip: the registrant-or-verifier
\* require is missing
_updateSchemaRequire_NoAuth(sender, schemaId) == OK

\* the require of _updateSchema: the revert string, or OK
_updateSchemaRequire(sender, schemaId) ==
    IF ~(\/ _schemas[schemaId].registeredBy = sender
         \/ hasRole(VERIFIER_ROLE, sender))
    THEN "Unauthorized"
    ELSE OK

\* _updateSchemaWrite with a plausible slip: the version is not increased
_updateSchemaWrite_NoVersionBump(sender, schemaId, schemaURI) ==
    [_schemas EXCEPT ![schemaId].schemaURI = schemaURI,
                     ![schemaId].updatedAt = now,
                     ![schemaId].updatedBy = sender]

\* the storage writes of _updateSchema
_updateSchemaWrite(sender, schemaId, schemaURI) ==
    [_schemas EXCEPT ![schemaId].schemaURI = schemaURI,
                     ![schemaId].updatedAt = now,
                     ![schemaId].updatedBy = sender,
                     ![schemaId].version = @ + 1]

\* registerSchemaRequire with a plausible slip: the require on the URI is
\* missing
registerSchemaRequire_NoURICheck(sender, schemaId, schemaURI) ==
    IF onlyRole(ISSUER_ROLE, sender) # OK THEN onlyRole(ISSUER_ROLE, sender)
    ELSE IF ~(Len(schemaId) > 0) THEN "Empty schema ID"
    ELSE IF _schemas[schemaId].isRegistered
         THEN _updateSchemaRequire(sender, schemaId)
    ELSE OK

\* the first failing require of registerSchema, or OK; a registered schemaId
\* is handed to _updateSchema
registerSchemaRequire(sender, schemaId, schemaURI) ==
    IF onlyRole(ISSUER_ROLE, sender) # OK THEN onlyRole(ISSUER_ROLE, sender)
    ELSE IF ~(Len(schemaId) > 0) THEN "Empty schema ID"
    ELSE IF ~(Len(schemaURI) > 0) THEN "Empty schema URI"
    ELSE IF _schemas[schemaId].isRegistered
         THEN _updateSchemaRequire(sender, schemaId)
    ELSE OK

\* the storage writes of registerSchema to _schemas
registerSchemaWrite(sender, schemaId, schemaURI) ==
    IF _schemas[schemaId].isRegistered
    THEN _updateSchemaWrite(sender, schemaId, schemaURI)
    ELSE [_schemas EXCEPT ![schemaId] =
            [schemaURI |-> schemaURI, isRegistered |-> TRUE,
             registeredAt |-> now, updatedAt |-> now, registeredBy |-> sender,
             updatedBy |-> sender, version |-> 1]]

\* registerSchema with a plausible slip: the id is pushed on every successful
\* call, updates included
\* the event with a plausible slip: SchemaUpdated is emitted before the
\* version is increased
registerSchemaEmit_StaleVersion(schemaId, schemaURI) ==
    IF _schemas[schemaId].isRegistered
    THEN <<"SchemaUpdated", schemaURI, _schemas[schemaId].version>>
    ELSE <<"SchemaRegistered", schemaURI>>

\* the event a successful registerSchema emits, with its schemaURI and, for
\* SchemaUpdated, its version field: the version after the increment
registerSchemaEmit(schemaId, schemaURI) ==
    IF _schemas[schemaId].isRegistered
    THEN <<"SchemaUpdated", schemaURI, _schemas[schemaId].version + 1>>
    ELSE <<"SchemaRegistered", schemaURI>>

registerSchema_PushOnUpdate(sender, schemaId, schemaURI) ==
    LET r == registerSchemaRequire(sender, schemaId, schemaURI) IN
    /\ last' = Receipt("registerSchema", r)
    /\ _schemas' =
          IF r = OK THEN registerSchemaWrite(sender, schemaId, schemaURI)
          ELSE _schemas
    /\ _schemaIds' = IF r = OK THEN Append(_schemaIds, schemaId) ELSE _schemaIds
    /\ schemaLog' =
          IF r = OK
          THEN [schemaLog EXCEPT
                  ![schemaId] = Append(@, registerSchemaEmit(schemaId, schemaURI))]
          ELSE schemaLog
    /\ Step
    /\ UNCHANGED <<_roles, _owner, now, credentialState, consentState,
                    accessEvents, metadataState, factoryState>>

registerSchema(sender, schemaId, schemaURI) ==
    LET r == registerSchemaRequire(sender, schemaId, schemaURI) IN
    /\ last' = Receipt("registerSchema", r)
    /\ _schemas' =
          IF r = OK THEN registerSchemaWrite(sender, schemaId, schemaURI)
          ELSE _schemas
    /\ _schemaIds' =
          IF r = OK /\ ~_schemas[schemaId].isRegistered
          THEN Append(_schemaIds, schemaId)
          ELSE _schemaIds
    /\ schemaLog' =
          IF r = OK
          THEN [schemaLog EXCEPT
                  ![schemaId] = Append(@, registerSchemaEmit(schemaId, schemaURI))]
          ELSE schemaLog
    /\ Step
    /\ UNCHANGED <<_roles, _owner, now, credentialState, consentState,
                    accessEvents, metadataState, factoryState>>

\* view function getSchemaURI: its require, and the value it returns
getSchemaURIRequire(schemaId) ==
    IF ~_schemas[schemaId].isRegistered THEN "Schema not found" ELSE OK

getSchemaURI(schemaId) == _schemas[schemaId].schemaURI

isSchemaRegistered(schemaId) == _schemas[schemaId].isRegistered

getSchemaCount == Len(_schemaIds)

\* view function getSchemaIdByIndex (index counts from 0): its require, and
\* the value it returns
getSchemaIdByIndexRequire(index) ==
    IF ~(index < Len(_schemaIds)) THEN "Index out of bounds" ELSE OK

getSchemaIdByIndex(index) == _schemaIds[index + 1]

\* the schema registry in use: accounts register and update schemas,
\* verifiers grant and revoke roles, blocks pass
NextSchema ==
    \/ \E s \in Address, id \in SchemaIds, u \in SchemaURIs : registerSchema(s, id, u)
    \/ \E s \in Address, r \in Roles, a \in Address : grantRole(s, r, a)
    \/ \E s \in Address, r \in Roles, a \in Address : revokeRole(s, r, a)
    \/ Tick

SpecSchema == Init /\ [][NextSchema]_vars

\* ----------------------------------------------------- SSIRegistryFactory
\* Every deployed SSIRegistry has its own storage.  The variables of the
\* registry sections hold the storage (and the event logs) of the registry at
\* address `this`; `instances` holds those of every other deployed registry.

\* the storage and logs of the registry at `this`, as one record
storage ==
    [code |-> TRUE, _roles |-> _roles, _owner |-> _owner,
     _credentials |-> _credentials, registered |-> registered,
     revoked |-> revoked, _consents |-> _consents,
     consentCalls |-> consentCalls, _schemas |-> _schemas,
     _schemaIds |-> _schemaIds, schemaLog |-> schemaLog,
     roleEvents |-> roleEvents, ownerEvents |-> ownerEvents, name |-> name,
     description |-> description, didRegistry |-> didRegistry]

\* a registry has been deployed at address r
isDeployed(r) == r = this \/ r \in DOMAIN instances

\* the storage of the registry deployed at address r
registryState(r) == IF r = this THEN storage ELSE instances[r]

\* new SSIRegistry(_name, _description, _didRegistry) by msg.sender: the
\* constructor of AccessControl and then the one of SSIRegistry
SSIRegistryConstructor(sender, _name, _description, _didRegistry) ==
    [NoContract EXCEPT
       !.code = TRUE,
       !._owner = sender,
       !._roles = constructorRoles(sender),
       !.roleEvents[VERIFIER_ROLE][sender] = <<"RoleGranted">>,
       !.ownerEvents = <<<<address0, sender>>>>,
       !.name = _name,
       !.description = _description,
       !.didRegistry = _didRegistry]

\* createRegistry with a plausible slip: the ownership stays with the factory
createRegistryStorage_NoHandOver(sender, _name, _description) ==
    SSIRegistryConstructor(factory, _name, _description, factoryDidRegistry)

\* createRegistry with a plausible slip: the factory also makes the creator
\* a Verifier of the new registry before it hands the ownership over
createRegistryStorage_GrantsCreator(sender, _name, _description) ==
    LET registry ==
          SSIRegistryConstructor(factory, _name, _description, factoryDidRegistry)
    IN  [registry EXCEPT
           !._roles[VERIFIER_ROLE][sender] = TRUE,
           !.roleEvents[VERIFIER_ROLE][sender] = <<"RoleGranted">>,
           !.ownerEvents = Append(@, <<registry._owner, sender>>),
           !._owner = sender]

\* the registry createRegistry leaves: constructed by the factory, and then
\* registry.transferOwnership(msg.sender), called by the factory, its owner
createRegistryStorage(sender, _name, _description) ==
    LET registry ==
          SSIRegistryConstructor(factory, _name, _description, factoryDidRegistry)
    IN  [registry EXCEPT
           !.ownerEvents = Append(@, <<registry._owner, sender>>),
           !._owner = sender]

\* the revert string of registry.transferOwnership(msg.sender), or OK
createRegistryRequire(sender) ==
    IF ~(sender # address0) THEN "AccessControl: zero address" ELSE OK

createRegistry(sender, _name, _description) ==
    LET r == createRegistryRequire(sender)
        registry == createAddress(factory, Len(_registries) + 2)
    IN  /\ Len(_registries) < MaxRegistries
        /\ last' = Receipt("createRegistry", r)
        /\ instances' =
              IF r = OK
              THEN [a \in DOMAIN instances \cup {registry} |->
                      IF a = registry
                      THEN createRegistryStorage(sender, _name, _description)
                      ELSE instances[a]]
              ELSE instances
        /\ _registries' = IF r = OK THEN Append(_registries, registry) ELSE _registries
        /\ Step
        /\ UNCHANGED <<_roles, _owner, now, this, factoryDidRegistry, credentialState,
                        consentState, schemaState, accessEvents, metadataState>>

getRegistryCount == Len(_registries)

getRegistryByIndexRequire(index) ==
    IF ~(index < Len(_registries)) THEN "Index out of bounds" ELSE OK

\* _registries[index], for an index that passes the require
getRegistryByIndex(index) == _registries[index + 1]

getAllRegistries == _registries

getDIDRegistry == factoryDidRegistry

\* the next transaction is addressed to the registry at r: its storage is
\* moved into the variables, that of `this` into `instances`
select(r) ==
    /\ r # this
    /\ r \in DOMAIN instances
    /\ this' = r
    /\ instances' = [a \in (DOMAIN instances \ {r}) \cup {this} |->
                        IF a = this THEN storage ELSE instances[a]]
    /\ _roles' = instances[r]._roles
    /\ _owner' = instances[r]._owner
    /\ _credentials' = instances[r]._credentials
    /\ registered' = instances[r].registered
    /\ revoked' = instances[r].revoked
    /\ _consents' = instances[r]._consents
    /\ consentCalls' = instances[r].consentCalls
    /\ _schemas' = instances[r]._schemas
    /\ _schemaIds' = instances[r]._schemaIds
    /\ schemaLog' = instances[r].schemaLog
    /\ roleEvents' = instances[r].roleEvents
    /\ ownerEvents' = instances[r].ownerEvents
    /\ name' = instances[r].name
    /\ description' = instances[r].description
    /\ didRegistry' = instances[r].didRegistry
    /\ UNCHANGED <<now, last, nSteps, mempool, _registries, factoryDidRegistry>>

\* the factory, and every kind of transaction on the registry at `this`
NextFactory ==
    \/ \E s \in FactoryCallers :
          createRegistry(s, FactoryCreateMetadata[1], FactoryCreateMetadata[2])
    \/ \E r \in RegistryAddresses : select(r)
    \/ \E s \in FactoryCallers :
          registerCredential(s, FactoryCredential[1], FactoryCredential[2],
                             FactoryCredential[3])
    \/ \E s \in FactoryCallers :
          revokeCredential(s, FactoryCredential[1], FactoryCredential[2])
    \/ \E s \in FactoryCallers : registerSchema(s, FactorySchema[1], FactorySchema[2])
    \/ \E s \in FactoryCallers :
          grantConsent(s, FactoryConsent[1], FactoryConsent[2], FactoryConsent[3],
                       FactoryTerms[1], FactoryTerms[2], FactoryTerms[3])
    \/ \E s \in FactoryCallers :
          revokeConsent(s, FactoryConsent[1], FactoryConsent[2], FactoryConsent[3])
    \/ \E s \in FactoryCallers : addIssuer(s, FactoryGrantee)
    \/ \E s \in FactoryCallers : removeIssuer(s, FactoryGrantee)
    \/ \E s \in FactoryCallers : transferOwnership(s, FactoryGrantee)
    \/ \E s \in FactoryCallers :
          updateMetadata(s, FactoryUpdateMetadata[1], FactoryUpdateMetadata[2])

SpecFactory == Init /\ [][NextFactory]_vars

\* ------------------------------------------------------------ every write
\* every state-changing function of one registry and of the factory
NextSSI ==
    \/ \E s \in FactoryCallers, p \in SSICredentialInputs :
          registerCredential(s, p[1], p[2], p[3])
    \/ \E s \in FactoryCallers :
          revokeCredential(s, FactoryCredential[1], FactoryCredential[2])
    \/ \E s \in FactoryCallers, p \in SSISchemaInputs : registerSchema(s, p[1], p[2])
    \/ \E s \in FactoryCallers, t \in SSIConsentInputs :
          grantConsent(s, t[1], t[2], t[3], t[4], FactoryTerms[2], FactoryTerms[3])
    \/ \E s \in FactoryCallers :
          revokeConsent(s, FactoryConsent[1], FactoryConsent[2], FactoryConsent[3])
    \/ \E s \in FactoryCallers : addIssuer(s, FactoryGrantee)
    \/ \E s \in FactoryCallers : removeIssuer(s, FactoryGrantee)
    \/ \E s \in FactoryCallers, n \in {FactoryGrantee, address0} :
          transferOwnership(s, n)
    \/ \E s \in FactoryCallers :
          updateMetadata(s, FactoryUpdateMetadata[1], FactoryUpdateMetadata[2])
    \/ \E s \in FactoryCallers :
          createRegistry(s, FactoryCreateMetadata[1], FactoryCreateMetadata[2])
    \/ Tick

SpecSSI == Init /\ [][NextSSI]_vars

\* ------------------------------------------------------------ vocabulary
\* the revert strings of the specification's error kinds
Unauthorized ==
    {"AccessControl: missing role", "Unauthorized", "AccessControl: not owner",
     "AccessControl: zero address"}
NotFound == {"Not registered", "Consent not found", "Schema not found"}
AlreadyRevoked == {"Already revoked"}

NonEmptyInputs == {p \in CredentialInputs : Len(p[1]) > 0 /\ Len(p[2]) > 0}

\* this step is the transaction registerCredential(p[1], p[2], m) sent by s
Registers(s, p, m) ==
    last'.op = "registerCredential" /\ registerCredential(s, p[1], p[2], m)

\* this step is the transaction revokeCredential(p[1], p[2]) sent by s
Revokes(s, p) ==
    last'.op = "revokeCredential" /\ revokeCredential(s, p[1], p[2])

OutOfBounds == {"Index out of bounds"}

\* the indices getSchemaIdByIndex is read at: every position the id list can
\* have, and one past it
SchemaIndices == 0..Cardinality(SchemaIds)

NonEmptyTriples ==
    {t \in ConsentInputs : Len(t[1]) > 0 /\ Len(t[2]) > 0 /\ Len(t[3]) > 0}

\* the ledger times a read can happen at
LedgerTimes == 1..(MaxSteps + 2)

\* the record stored for the triple t, and its history
consentRecord(t) == _consents[_generateConsentKey(t[1], t[2], t[3])]
consentHistory(t) == consentCalls[_generateConsentKey(t[1], t[2], t[3])]

\* this step is the transaction grantConsent(t[1], t[2], t[3], c[1], c[2], c[3])
\* sent by s
Grants(s, t, c) ==
    /\ last'.op = "grantConsent"
    /\ grantConsent(s, t[1], t[2], t[3], c[1], c[2], c[3])

\* this step is the transaction revokeConsent(t[1], t[2], t[3]) sent by s
RevokesConsent(s, t) ==
    last'.op = "revokeConsent" /\ revokeConsent(s, t[1], t[2], t[3])

\* the account holds no role and is not the owner
Unprivileged(a) ==
    ~hasRole(ISSUER_ROLE, a) /\ ~hasRole(VERIFIER_ROLE, a) /\ a # owner

\* this step is the transaction registerSchema(id, u) sent by s
RegistersSchema(s, id, u) ==
    last'.op = "registerSchema" /\ registerSchema(s, id, u)

NonEmptySchemaURIs == {u \in SchemaURIs : Len(u) > 0}

\* the functions that change role membership
RoleOps ==
    {"grantRole", "revokeRole", "addIssuer", "removeIssuer", "addVerifier",
     "removeVerifier"}

\* this step is a role-management transaction sent by s
RoleCall(s) ==
    /\ last'.op \in RoleOps
    /\ \E a \in Address :
          \/ \E r \in Roles : grantRole(s, r, a) \/ revokeRole(s, r, a)
          \/ addIssuer(s, a)
          \/ removeIssuer(s, a)
          \/ addVerifier(s, a)
          \/ removeVerifier(s, a)

\* this step is the transaction transferOwnership(n) sent by s
TransfersOwnership(s, n) ==
    last'.op = "transferOwnership" /\ transferOwnership(s, n)

\* this step is the transaction updateMetadata(m[1], m[2]) sent by s
UpdatesMetadata(s, m) ==
    last'.op = "updateMetadata" /\ updateMetadata(s, m[1], m[2])

\* getRegistryByIndex arguments
RegistryIndices == 0..(MaxRegistries + 1)

\* this step is the transaction createRegistry(m[1], m[2]) sent by s
CreatesRegistry(s, m) ==
    last'.op = "createRegistry" /\ createRegistry(s, m[1], m[2])

\* the addresses of the registries the factory has created
createdRegistries == {_registries[i] : i \in 1..Len(_registries)}

\* the ledgers of the registry with storage st hold no record
EmptyLedgers(st) ==
    /\ \A id \in CredentialIds : ~st._credentials[id].isRegistered
    /\ \A k \in ConsentKeys : ~st._consents[k].isRegistered
    /\ \A id \in SchemaIds : ~st._schemas[id].isRegistered
    /\ st._schemaIds = <<>>

\* the revert strings of the require statements on empty strings
InvalidInput ==
    {"Empty DID", "Empty hash", "Empty schema ID", "Empty schema URI",
     "Empty user DID", "Empty verifier DID", "Empty purpose"}

\* the records of the three ledgers, with their histories
ledgerState ==
    <<_credentials, registered, revoked, _consents, consentCalls, _schemas,
      _schemaIds, schemaLog>>

\* the storage of the addressed registry, of the other registries and of the
\* factory, with every event log
completeState ==
    <<_roles, _owner, ledgerState, accessEvents, metadataState, factoryState>>

\* the functions of each ledger that change state
CredentialOps == {"registerCredential", "revokeCredential"}
SchemaOps == {"registerSchema"}
ConsentOps == {"grantConsent", "revokeConsent"}

\* ----------------------------------------------------------------- claims

\* C1: for every non-empty (did, credentialHash), once registerCredential has
\* succeeded for the pair, isCredentialValid of the pair is true in every
\* later state up to the first successful revokeCredential of that pair.
C1_ValidUntilRevoked ==
    \A p \in registered \ revoked : isCredentialValid(p[1], p[2])

\* C2: registerCredential by an Issuer on a pair that is already registered
\* fails with "Already registered", whoever the caller is and also after the
\* credential has been revoked, and leaves every record as it was.
C2_WriteOnce ==
    [][\A s \in Address, p \in CredentialInputs, m \in MetadataURIs :
          ( /\ p \in registered
            /\ hasRole(ISSUER_ROLE, s)
            /\ Registers(s, p, m) )
          => /\ last'.result = "Already registered"
             /\ _credentials' = _credentials]_vars

\* a re-registration has just been rejected while a registered credential
\* stands revoked
C2_Witness ==
    /\ last = Receipt("registerCredential", "Already registered")
    /\ \E p \in registered : getCredentialInfo(p[1], p[2]).isRevoked

\* C3: for every registered, non-revoked credential, revokeCredential called
\* by the identity that registered it succeeds, whatever happened to role
\* memberships since, and exactly once: every later revokeCredential on the
\* pair returns "Already revoked".
C3_RegistrantRevokesOnce ==
    [][\A s \in Address, p \in CredentialInputs :
          Revokes(s, p)
          => /\ ( /\ p \in registered
                  /\ ~getCredentialInfo(p[1], p[2]).isRevoked
                  /\ getCredentialInfo(p[1], p[2]).registeredBy = s )
                => last'.result = OK
             /\ p \in revoked => last'.result = "Already revoked"]_vars

\* C4: there is no un-revoke: once isRevoked is true it stays true and
\* isCredentialValid stays false, whatever transaction is mined.
C4_NoUnrevoke ==
    [][\A p \in CredentialInputs :
          getCredentialInfo(p[1], p[2]).isRevoked
          => /\ getCredentialInfo(p[1], p[2])'.isRevoked
             /\ ~isCredentialValid(p[1], p[2])']_vars

\* a credential stands revoked and something has happened since: a second
\* revocation was rejected, or a later block has begun
C4_Witness ==
    \E p \in revoked :
        /\ getCredentialInfo(p[1], p[2]).isRevoked
        /\ \/ last = Receipt("revokeCredential", "Already revoked")
           \/ getCredentialInfo(p[1], p[2]).revokedAt < now

\* C5: registerCredential fails with "AccessControl: missing role" and writes
\* no record exactly when the caller does not hold the Issuer role at the
\* time of the call; a caller that holds it registers every non-empty pair
\* whose record is unregistered.
C5_IssuerOnly ==
    [][ /\ \A s \in Address :
              ( /\ ~hasRole(ISSUER_ROLE, s)
                /\ \E p \in CredentialInputs, m \in MetadataURIs : Registers(s, p, m) )
              => /\ last'.result = "AccessControl: missing role"
                 /\ _credentials' = _credentials
        /\ \A s \in Address, p \in CredentialInputs, m \in MetadataURIs :
              ( hasRole(ISSUER_ROLE, s) /\ Registers(s, p, m) )
              => /\ last'.result # "AccessControl: missing role"
                 /\ ( /\ p \in NonEmptyInputs
                      /\ ~getCredentialInfo(p[1], p[2]).isRegistered )
                    => /\ last'.result = OK
                       /\ getCredentialInfo(p[1], p[2])'.isRegistered
                       /\ getCredentialInfo(p[1], p[2])'.registeredBy = s ]_vars

\* an identity that registered a credential as Issuer has lost the role, and
\* a registerCredential has just failed for want of the role
C5_Witness ==
    /\ last = Receipt("registerCredential", "AccessControl: missing role")
    /\ \E p \in registered :
          ~hasRole(ISSUER_ROLE, getCredentialInfo(p[1], p[2]).registeredBy)

\* C6: any identity holding the Verifier role can revoke any registered,
\* non-revoked credential: its revokeCredential succeeds and sets isRevoked,
\* revokedAt and revokedBy = caller.
C6_VerifierRevokes ==
    [][\A s \in Address, p \in CredentialInputs :
          ( /\ hasRole(VERIFIER_ROLE, s)
            /\ p \in registered
            /\ ~getCredentialInfo(p[1], p[2]).isRevoked
            /\ Revokes(s, p) )
          => /\ last'.result = OK
             /\ getCredentialInfo(p[1], p[2])'.isRevoked
             /\ getCredentialInfo(p[1], p[2])'.revokedAt = now
             /\ getCredentialInfo(p[1], p[2])'.revokedBy = s]_vars

\* C7: revokeCredential on a registered, non-revoked credential by a caller
\* that is neither its registrant nor a Verifier fails with Unauthorized and
\* changes no record, so the credential stays valid.
C7_OthersCannotRevoke ==
    [][\A s \in Address, p \in CredentialInputs :
          ( /\ getCredentialInfo(p[1], p[2]).isRegistered
            /\ ~getCredentialInfo(p[1], p[2]).isRevoked
            /\ getCredentialInfo(p[1], p[2]).registeredBy # s
            /\ ~hasRole(VERIFIER_ROLE, s)
            /\ Revokes(s, p) )
          => /\ last'.result \in Unauthorized
             /\ _credentials' = _credentials
             /\ isCredentialValid(p[1], p[2])']_vars

\* an Issuer that is neither the registrant nor a Verifier has just been
\* refused, and a valid credential is still there
C7_Witness ==
    /\ last = Receipt("revokeCredential", "Unauthorized")
    /\ \E p \in registered : isCredentialValid(p[1], p[2])

\* C8: revokeCredential reports the specific error for any caller:
\* "Not registered" on a pair never registered, "Already revoked" on a
\* revoked pair, and Unauthorized only on a registered, non-revoked one.
C8_SpecificError ==
    [][\A s \in Address, p \in CredentialInputs :
          Revokes(s, p)
          => /\ p \notin registered => last'.result = "Not registered"
             /\ p \in revoked => last'.result = "Already revoked"
             /\ last'.result \in Unauthorized
                => p \in registered /\ p \notin revoked]_vars

\* the transactions in flight that have been mined, were sent by an Issuer
\* with non-empty arguments, and address the record `id`
MinedByIssuers(id) ==
    {i \in 1..MaxPending :
        /\ mempool[i].result \in {OK, "Already registered"}
        /\ _generateCredentialId(mempool[i].did, mempool[i].credentialHash) = id}

\* C9: of the concurrent registerCredential calls by Issuers on one record,
\* in every order of mining exactly one succeeds and all the others fail with
\* "Already registered", and registeredBy is the sender of the one success.
C9_ExactlyOneSucceeds ==
    \A id \in CredentialIds :
        MinedByIssuers(id) # {}
        => /\ Cardinality({i \in MinedByIssuers(id) : mempool[i].result = OK}) = 1
           /\ \A i \in MinedByIssuers(id) :
                 mempool[i].result = OK
                 => _credentials[id].registeredBy = mempool[i].sender

\* every transaction in flight addressed the same pair, two issuers took
\* part, all are mined: one succeeded and the rest were rejected
C9_Witness ==
    /\ \A i \in 1..MaxPending :
          /\ mempool[i].result \in {OK, "Already registered"}
          /\ mempool[i].did = mempool[1].did
          /\ mempool[i].credentialHash = mempool[1].credentialHash
    /\ \E i, j \in 1..MaxPending : mempool[i].sender # mempool[j].sender
    /\ \E i \in 1..MaxPending : mempool[i].result = "Already registered"

\* C10: records are keyed by the pair: for two different non-empty pairs P
\* and Q, a registerCredential or revokeCredential on P never changes
\* getCredentialInfo or isCredentialValid of Q, and a registerCredential of Q
\* fails with "Already registered" only if Q itself was registered.
C10_KeyedByPair ==
    [][\A s \in Address, p \in NonEmptyInputs, m \in MetadataURIs :
          /\ ( Registers(s, p, m) \/ Revokes(s, p) )
             => \A q \in NonEmptyInputs \ {p} :
                   /\ getCredentialInfo(q[1], q[2])' = getCredentialInfo(q[1], q[2])
                   /\ isCredentialValid(q[1], q[2])' = isCredentialValid(q[1], q[2])
          /\ ( last'.result = "Already registered" /\ Registers(s, p, m) )
             => p \in registered]_vars

\* C11: consent round trip.  A grantConsent with non-empty strings and
\* expiresAt = 0 succeeds in every state (never granted, granted, revoked) and
\* leaves isConsentValid of its triple true; a revokeConsent on a granted, not
\* revoked record succeeds and leaves isConsentValid false.  As neither depends
\* on how often the record was granted or revoked before, the cycle repeats
\* without end.
C11_RoundTrip ==
    [][\A s \in ConsentCallers, t \in NonEmptyTriples :
          /\ \A c \in ConsentTerms :
                ( c[3] = 0 /\ Grants(s, t, c) )
                => /\ last'.result = OK
                   /\ isConsentValid(t[1], t[2], t[3])'
          /\ ( /\ consentRecord(t).isRegistered
               /\ ~consentRecord(t).isRevoked
               /\ RevokesConsent(s, t) )
             => /\ last'.result = OK
                /\ ~isConsentValid(t[1], t[2], t[3])']_vars

\* the second revoke of a consent that was granted, revoked and granted again
C11_Witness ==
    /\ last = Receipt("revokeConsent", OK)
    /\ \E t \in NonEmptyTriples :
          /\ consentHistory(t).revokes = 2
          /\ consentRecord(t).expiresAt = 0
          /\ consentRecord(t).isRevoked
          /\ ~isConsentValid(t[1], t[2], t[3])

\* C12: at every ledger time, isConsentValid of a triple is
\* isRegistered /\ ~isRevoked /\ (expiresAt = 0 \/ now <= expiresAt) of the
\* record under its key; a granted, not revoked record with expiresAt = T # 0
\* is valid at time T and invalid at time T + 1.
C12_ValidityFormula ==
    \A t \in ConsentInputs :
       /\ \A at \in LedgerTimes \cup {now} :
             isConsentValidAt(_consents, at, t[1], t[2], t[3])
                = ( /\ consentRecord(t).isRegistered
                    /\ ~consentRecord(t).isRevoked
                    /\ ( consentRecord(t).expiresAt = 0
                         \/ at <= consentRecord(t).expiresAt ) )
       /\ ( /\ consentRecord(t).isRegistered
            /\ ~consentRecord(t).isRevoked
            /\ consentRecord(t).expiresAt # 0 )
          => /\ now = consentRecord(t).expiresAt => isConsentValid(t[1], t[2], t[3])
             /\ now = consentRecord(t).expiresAt + 1
                   => ~isConsentValid(t[1], t[2], t[3])

\* one consent read at its expiry time and another one block after its own
C12_Witness ==
    \E t, u \in NonEmptyTriples :
       /\ consentRecord(t).expiresAt = now
       /\ isConsentValid(t[1], t[2], t[3])
       /\ consentRecord(u).isRegistered
       /\ ~consentRecord(u).isRevoked
       /\ consentRecord(u).expiresAt # 0
       /\ consentRecord(u).expiresAt + 1 = now
       /\ ~isConsentValid(u[1], u[2], u[3])

\* C13: grantConsent with non-empty strings on a key whose record is revoked
\* succeeds and reactivates that record: afterwards it is registered, not
\* revoked, revokedAt = 0 and revokedBy = address(0); no other key's record
\* changes and the number of registered records stays the same.
C13_Reactivates ==
    [][\A s \in ConsentCallers, t \in NonEmptyTriples, c \in ConsentTerms :
          ( /\ consentRecord(t).isRegistered
            /\ consentRecord(t).isRevoked
            /\ Grants(s, t, c) )
          => /\ last'.result = OK
             /\ consentRecord(t)'.isRegistered
             /\ ~consentRecord(t)'.isRevoked
             /\ consentRecord(t)'.revokedAt = 0
             /\ consentRecord(t)'.revokedBy = address0
             /\ DOMAIN _consents' = DOMAIN _consents
             /\ \A k \in ConsentKeys :
                   k # _generateConsentKey(t[1], t[2], t[3])
                   => _consents'[k] = _consents[k]
             /\ Cardinality({k \in ConsentKeys : _consents'[k].isRegistered})
                   = Cardinality({k \in ConsentKeys : _consents[k].isRegistered})]_vars

\* a consent that was granted and revoked has just been granted again
C13_Witness ==
    /\ last = Receipt("grantConsent", OK)
    /\ \E t \in NonEmptyTriples :
          /\ consentHistory(t).revokes = 1
          /\ consentHistory(t).grants = 2
          /\ consentRecord(t).registeredAt = now
          /\ ~consentRecord(t).isRevoked
          /\ consentRecord(t).revokedAt = 0
          /\ consentRecord(t).revokedBy = address0

\* C14: consent writes carry no role restriction.  grantConsent with
\* non-empty strings succeeds for every caller, and revokeConsent on a
\* granted, not revoked record succeeds for every caller: also for one that
\* holds neither role nor the ownership, and for one that is not registeredBy.
C14_NoRoleRestriction ==
    [][\A s \in ConsentCallers :
          /\ \A t \in NonEmptyTriples, c \in ConsentTerms :
                Grants(s, t, c) => last'.result = OK
          /\ \A t \in ConsentInputs :
                ( /\ consentRecord(t).isRegistered
                  /\ ~consentRecord(t).isRevoked
                  /\ RevokesConsent(s, t) )
                => last'.result = OK]_vars

\* an account without role or ownership has granted one consent and has just
\* revoked another one, which the deployer had granted
C14_Witness ==
    /\ last = Receipt("revokeConsent", OK)
    /\ \E k1, k2 \in ConsentKeys :
          /\ _consents[k1].isRevoked
          /\ Unprivileged(_consents[k1].revokedBy)
          /\ _consents[k1].registeredBy # _consents[k1].revokedBy
          /\ _consents[k2].isRegistered
          /\ ~_consents[k2].isRevoked
          /\ Unprivileged(_consents[k2].registeredBy)

\* C15: revokeConsent fails with NotFound when no grantConsent has succeeded
\* on its key and with AlreadyRevoked when the record under its key is
\* revoked, and then changes no storage; on a record that was revoked and
\* granted again it succeeds.
C15_RevokeErrors ==
    [][\A s \in ConsentCallers, t \in ConsentInputs :
          RevokesConsent(s, t)
          => /\ consentHistory(t).grants = 0
                => /\ last'.result \in NotFound
                   /\ UNCHANGED <<_consents, _credentials, _schemas, _schemaIds,
                                  _roles, _owner>>
             /\ consentRecord(t).isRevoked
                => /\ last'.result \in AlreadyRevoked
                   /\ UNCHANGED <<_consents, _credentials, _schemas, _schemaIds,
                                  _roles, _owner>>
             /\ ( /\ consentHistory(t).revokes > 0
                  /\ consentRecord(t).isRegistered
                  /\ ~consentRecord(t).isRevoked )
                => last'.result = OK]_vars

\* a revoked consent has just been revoked once more, in vain
C15_Witness ==
    /\ last = Receipt("revokeConsent", "Already revoked")
    /\ \E t \in NonEmptyTriples :
          /\ consentHistory(t).revokes = 1
          /\ consentRecord(t).isRevoked

\* C16: grantConsent does not validate expiresAt.  A grant with non-empty
\* strings and a non-zero expiresAt earlier than block.timestamp succeeds and
\* stores the record with that expiresAt, and isConsentValid of the triple is
\* false right after it.
C16_PastExpiryAccepted ==
    [][\A s \in ConsentCallers, t \in NonEmptyTriples, c \in ConsentTerms :
          ( c[3] # 0 /\ c[3] < now /\ Grants(s, t, c) )
          => /\ last'.result = OK
             /\ consentRecord(t)'.isRegistered
             /\ ~consentRecord(t)'.isRevoked
             /\ consentRecord(t)'.registeredAt = now
             /\ consentRecord(t)'.expiresAt = c[3]
             /\ ~isConsentValid(t[1], t[2], t[3])']_vars

\* a consent has just been granted with an expiry that had already passed
C16_Witness ==
    /\ last = Receipt("grantConsent", OK)
    /\ \E t \in NonEmptyTriples :
          /\ consentRecord(t).isRegistered
          /\ ~consentRecord(t).isRevoked
          /\ consentRecord(t).registeredAt = now
          /\ consentRecord(t).expiresAt # 0
          /\ consentRecord(t).expiresAt < now
          /\ ~isConsentValid(t[1], t[2], t[3])

\* C17: consent records are keyed by the triple (userDid, verifierDid,
\* purpose): for two different triples of non-empty strings, granting or
\* revoking one never changes isConsentValid of the other.
C17_KeyedByTriple ==
    [][\A s \in ConsentCallers, t \in NonEmptyTriples, u \in NonEmptyTriples :
          ( /\ t # u
            /\ \/ \E c \in ConsentTerms : Grants(s, t, c)
               \/ RevokesConsent(s, t) )
          => isConsentValid(u[1], u[2], u[3])' = isConsentValid(u[1], u[2], u[3])]_vars

\* C18: schema versioning.  For every schemaId, version is the number of
\* registerSchema calls that have succeeded on it (a failed call counts for
\* nothing); once there is such a call, getSchemaURI returns the URI of the
\* latest one; when there is none, getSchemaURI fails with NotFound.
C18_VersionCountsWrites ==
    \A id \in SchemaIds :
       /\ _schemas[id].version = Len(schemaLog[id])
       /\ Len(schemaLog[id]) > 0
             => /\ getSchemaURIRequire(id) = OK
                /\ getSchemaURI(id) = schemaLog[id][Len(schemaLog[id])][2]
       /\ Len(schemaLog[id]) = 0 => getSchemaURIRequire(id) \in NotFound

\* a schema registered and then updated with another URI, a failed
\* registerSchema after that, and a schemaId that was never registered
C18_Witness ==
    /\ last.op = "registerSchema"
    /\ last.result # OK
    /\ \E id, other \in SchemaIds :
          /\ _schemas[id].version = 2
          /\ schemaLog[id][1][2] # schemaLog[id][2][2]
          /\ getSchemaURI(id) = schemaLog[id][2][2]
          /\ Len(other) > 0
          /\ getSchemaURIRequire(other) = "Schema not found"

\* C19: registerSchema with a non-empty schemaURI on a registered schemaId,
\* called by a holder of the Issuer role.  When the caller is neither the
\* original registrant nor a Verifier it fails with Unauthorized and the
\* schema record (schemaURI, version, updatedAt, updatedBy) is unchanged;
\* otherwise it succeeds, overwrites schemaURI, increases version by exactly
\* 1, sets updatedBy to the caller and updatedAt to block.timestamp, and
\* leaves registeredBy and registeredAt as they were.
C19_UpdateSemantics ==
    [][\A s \in Address, id \in SchemaIds, u \in NonEmptySchemaURIs :
          ( /\ _schemas[id].isRegistered
            /\ hasRole(ISSUER_ROLE, s)
            /\ RegistersSchema(s, id, u) )
          => IF _schemas[id].registeredBy = s \/ hasRole(VERIFIER_ROLE, s)
             THEN /\ last'.result = OK
                  /\ _schemas'[id].schemaURI = u
                  /\ _schemas'[id].version = _schemas[id].version + 1
                  /\ _schemas'[id].updatedBy = s
                  /\ _schemas'[id].updatedAt = now
                  /\ _schemas'[id].registeredBy = _schemas[id].registeredBy
                  /\ _schemas'[id].registeredAt = _schemas[id].registeredAt
                  /\ _schemas'[id].isRegistered
             ELSE /\ last'.result \in Unauthorized
                  /\ _schemas' = _schemas]_vars

\* an issuer that is neither the registrant of a schema nor a verifier has
\* just tried to update it
C19_Witness ==
    /\ last = Receipt("registerSchema", "Unauthorized")
    /\ \E id \in SchemaIds, s \in Address :
          /\ _schemas[id].isRegistered
          /\ hasRole(ISSUER_ROLE, s)
          /\ ~hasRole(VERIFIER_ROLE, s)
          /\ _schemas[id].registeredBy # s
          /\ _schemas[id].updatedBy = _schemas[id].registeredBy

\* C20: a registerSchema call with a non-empty schemaURI on a registered
\* schemaId succeeds when the caller is the original registrant or holds the
\* Verifier role, whether or not the caller holds the Issuer role.
C20_RegistrantOrVerifierUpdates ==
    [][\A s \in Address, id \in SchemaIds, u \in NonEmptySchemaURIs :
          ( /\ _schemas[id].isRegistered
            /\ \/ _schemas[id].registeredBy = s
               \/ hasRole(VERIFIER_ROLE, s)
            /\ RegistersSchema(s, id, u) )
          => last'.result = OK]_vars

\* C21: the schema id list agrees with the schema map.  In every state
\* getSchemaCount is the number of registered schemaIds, the list holds every
\* registered id exactly once and nothing else, in the order of first
\* registration; getSchemaIdByIndex(i) returns a registered id for i < count
\* and fails with OutOfBounds for i >= count.  A first successful
\* registerSchema appends its id at the end; an update, a failed call and
\* every other step leave the list as it is.
C21_EnumerationConsistent ==
    /\ [] /\ getSchemaCount = Cardinality({id \in SchemaIds : isSchemaRegistered(id)})
          /\ \A id \in SchemaIds :
                isSchemaRegistered(id)
                <=> \E i \in 1..Len(_schemaIds) : _schemaIds[i] = id
          /\ \A i, j \in 1..Len(_schemaIds) :
                /\ i # j => _schemaIds[i] # _schemaIds[j]
                /\ i < j => _schemas[_schemaIds[i]].registeredAt
                               <= _schemas[_schemaIds[j]].registeredAt
          /\ \A i \in SchemaIndices :
                IF i < getSchemaCount
                THEN /\ getSchemaIdByIndexRequire(i) = OK
                     /\ isSchemaRegistered(getSchemaIdByIndex(i))
                ELSE getSchemaIdByIndexRequire(i) \in OutOfBounds
    /\ [][ /\ \A s \in Address, id \in SchemaIds, u \in SchemaURIs :
                RegistersSchema(s, id, u)
                => _schemaIds' =
                      IF last'.result = OK /\ ~isSchemaRegistered(id)
                      THEN Append(_schemaIds, id)
                      ELSE _schemaIds
           /\ last'.op # "registerSchema" => _schemaIds' = _schemaIds ]_vars

\* two schemas registered one after the other, and the first one updated
C21_Witness ==
    /\ getSchemaCount = 2
    /\ _schemas[getSchemaIdByIndex(0)].version = 2
    /\ _schemas[getSchemaIdByIndex(1)].version = 1
    /\ getSchemaIdByIndexRequire(2) = "Index out of bounds"

\* C22: role membership changes only through a role-management call
\* (grantRole, revokeRole, addIssuer, removeIssuer, addVerifier,
\* removeVerifier) of a caller that holds the Verifier role when it calls.
\* Such a call by a caller without the Verifier role fails with Unauthorized
\* and leaves every (role, account) membership as it is, also when the
\* caller is the owner or an Issuer.
C22_OnlyVerifiersChangeRoles ==
    [][ /\ _roles' # _roles
           => \E s \in Address : hasRole(VERIFIER_ROLE, s) /\ RoleCall(s)
        /\ \A s \in Address :
              ( ~hasRole(VERIFIER_ROLE, s) /\ RoleCall(s) )
              => /\ last'.result \in Unauthorized
                 /\ _roles' = _roles ]_vars

\* no account holds the Verifier role, not even the owner, while an Issuer
\* exists, and a role-management call has just failed
C22_Witness ==
    /\ last.op \in RoleOps
    /\ last.result = "AccessControl: missing role"
    /\ \A a \in Accounts : ~hasRole(VERIFIER_ROLE, a)
    /\ \E a \in Address : hasRole(ISSUER_ROLE, a)
    /\ owner \in Address

\* C23: role grant and revoke are idempotent.  A Verifier's grant of a role
\* the account holds, or revoke of a role it does not hold, succeeds, changes
\* no state and emits no event.  In the event log of every (role, account)
\* RoleGranted and RoleRevoked alternate, starting with RoleGranted, and the
\* account holds the role exactly when the last event is RoleGranted.
C23_IdempotentRoles ==
    /\ [] \A r \in Roles, a \in Accounts :
             /\ \A i \in 1..Len(roleEvents[r][a]) :
                   roleEvents[r][a][i]
                      = IF i % 2 = 1 THEN "RoleGranted" ELSE "RoleRevoked"
             /\ hasRole(r, a) <=> Len(roleEvents[r][a]) % 2 = 1
    /\ [][\A s \in Address, r \in Roles, a \in Address :
             /\ ( /\ hasRole(VERIFIER_ROLE, s)
                  /\ hasRole(r, a)
                  /\ last'.op \in {"grantRole", "addIssuer", "addVerifier"}
                  /\ \/ grantRole(s, r, a)
                     \/ r = ISSUER_ROLE /\ addIssuer(s, a)
                     \/ r = VERIFIER_ROLE /\ addVerifier(s, a) )
                => /\ last'.result = OK
                   /\ UNCHANGED <<_roles, _owner, roleEvents, ownerEvents,
                                  metadataState, credentialState, consentState,
                                  schemaState>>
             /\ ( /\ hasRole(VERIFIER_ROLE, s)
                  /\ ~hasRole(r, a)
                  /\ last'.op \in {"revokeRole", "removeIssuer", "removeVerifier"}
                  /\ \/ revokeRole(s, r, a)
                     \/ r = ISSUER_ROLE /\ removeIssuer(s, a)
                     \/ r = VERIFIER_ROLE /\ removeVerifier(s, a) )
                => /\ last'.result = OK
                   /\ UNCHANGED <<_roles, _owner, roleEvents, ownerEvents,
                                  metadataState, credentialState, consentState,
                                  schemaState>> ]_vars

\* a role was granted, revoked and granted to an account, and then granted
\* once more without effect
C23_Witness ==
    /\ last.op \in {"grantRole", "addIssuer", "addVerifier"}
    /\ last.result = OK
    /\ nSteps = 4
    /\ \E r \in Roles, a \in Address :
          /\ roleEvents[r][a] = <<"RoleGranted", "RoleRevoked", "RoleGranted">>
          /\ \A r2 \in Roles, a2 \in Address :
                (r2 # r \/ a2 # a) => Len(roleEvents[r2][a2]) <= 1

\* C24: a registry has exactly one owner at any time, a non-zero account.
\* transferOwnership by the owner to a non-zero account succeeds and makes
\* that account the owner; by any other caller, or to the zero account, it
\* fails with Unauthorized and the owner stays.  After a successful transfer
\* to another account the previous owner can neither transfer the ownership
\* nor call updateMetadata.
C24_SingleOwner ==
    /\ [] (owner \in Address)
    /\ [][\A s \in Address :
             /\ \A n \in Address \cup {address0} :
                   TransfersOwnership(s, n)
                   => IF s = owner /\ n # address0
                      THEN last'.result = OK /\ owner' = n
                      ELSE last'.result \in Unauthorized /\ owner' = owner
             /\ \A m \in RegistryMetadata :
                   ( s # owner /\ UpdatesMetadata(s, m) )
                   => /\ last'.result \in Unauthorized
                      /\ UNCHANGED metadataState
             /\ ( /\ last' = Receipt("transferOwnership", OK)
                  /\ s = owner
                  /\ owner' # s )
                => /\ \A n \in Address \cup {address0} :
                         transferOwnershipRequire(s, n)' \in Unauthorized
                   /\ updateMetadataRequire(s)' \in Unauthorized ]_vars

\* C24 as stated: after every successful transfer, also one to the owner
\* itself, the previous owner can neither transfer the ownership nor call
\* updateMetadata.
C24_PreviousOwnerLocked ==
    [][\A s \in Address :
          ( last' = Receipt("transferOwnership", OK) /\ s = owner )
          => /\ \A n \in Address \cup {address0} :
                   transferOwnershipRequire(s, n)' \in Unauthorized
             /\ updateMetadataRequire(s)' \in Unauthorized ]_vars

\* the ownership has moved to another account and the previous owner has
\* just failed to change the metadata
C24_Witness ==
    /\ last = Receipt("updateMetadata", "AccessControl: not owner")
    /\ Len(ownerEvents) = 2
    /\ ownerEvents[2][1] # owner
    /\ ownerEvents[2][2] = owner

\* C25: right after its construction the registry's owner is the deployer,
\* the deployer holds the Verifier role, no other account holds any role and
\* no account holds the Issuer role.
C25_AfterConstruction ==
    last.op = "constructor"
    => /\ owner = deployer
       /\ hasRole(VERIFIER_ROLE, deployer)
       /\ \A r \in Roles, a \in Accounts : hasRole(r, a) => a = deployer
       /\ \A a \in Accounts : ~hasRole(ISSUER_ROLE, a)

\* the registry as its constructor leaves it
C25_Witness ==
    /\ last = Receipt("constructor", OK)
    /\ nSteps = 0
    /\ ownerEvents = <<<<address0, deployer>>>>
    /\ roleEvents[VERIFIER_ROLE][deployer] = <<"RoleGranted">>

\* C26: every successful createRegistry(name, description) deploys a registry
\* at an address that had no contract, with empty ledgers, the given name and
\* description and the caller as owner, and appends its address to the
\* factory's list: the count grows by one and the addresses listed before
\* keep their index.  The addresses in the list are distinct, no other step
\* changes the list, every listed registry is bound to the factory's DID
\* registry, which is never replaced, and getRegistryByIndex(i) fails with
\* OutOfBounds exactly when i >= getRegistryCount.
C26_FactoryList ==
    /\ [] /\ \A i, j \in 1..Len(_registries) :
                i # j => _registries[i] # _registries[j]
          /\ \A i \in 1..Len(_registries) :
                /\ isDeployed(_registries[i])
                /\ registryState(_registries[i]).didRegistry = getDIDRegistry
          /\ \A i \in RegistryIndices :
                IF i >= getRegistryCount
                THEN getRegistryByIndexRequire(i) \in OutOfBounds
                ELSE /\ getRegistryByIndexRequire(i) = OK
                     /\ getRegistryByIndex(i) = getAllRegistries[i + 1]
    /\ [][ /\ \A s \in FactoryCallers, m \in RegistryMetadata :
                ( CreatesRegistry(s, m) /\ last'.result = OK )
                => \E new \in RegistryAddresses :
                   /\ new = _registries'[Len(_registries')]
                   /\ getRegistryCount' = getRegistryCount + 1
                   /\ \A i \in 1..Len(_registries) : _registries'[i] = _registries[i]
                   /\ ~isDeployed(new)
                   /\ isDeployed(new)'
                   /\ registryState(new)'._owner = s
                   /\ registryState(new)'.name = m[1]
                   /\ registryState(new)'.description = m[2]
                   /\ registryState(new)'.didRegistry = getDIDRegistry
                   /\ EmptyLedgers(registryState(new)')
           /\ last'.op # "createRegistry" => _registries' = _registries
           /\ getDIDRegistry' = getDIDRegistry ]_vars

\* two callers have created a registry each, and the second has just been
\* appended
C26_Witness ==
    /\ last = Receipt("createRegistry", OK)
    /\ getRegistryCount = 2
    /\ registryState(getRegistryByIndex(0))._owner = "alice"
    /\ registryState(getRegistryByIndex(1))._owner = "deployer"
    /\ getRegistryByIndexRequire(2) = "Index out of bounds"

C28_EmptyInputsRejected ==
    [][\A s \in FactoryCallers :
          /\ \A p \in SSICredentialInputs :
                ( hasRole(ISSUER_ROLE, s) /\ Registers(s, p, p[3]) )
                => IF p[1] = "" \/ p[2] = ""
                   THEN last'.result \in InvalidInput /\ UNCHANGED ledgerState
                   ELSE /\ last'.result \notin InvalidInput
                        /\ last'.result = OK
                           => _credentials'[_generateCredentialId(p[1], p[2])].metadataURI
                                 = p[3]
          /\ \A p \in SSISchemaInputs :
                ( hasRole(ISSUER_ROLE, s) /\ RegistersSchema(s, p[1], p[2]) )
                => IF p[1] = "" \/ p[2] = ""
                   THEN last'.result \in InvalidInput /\ UNCHANGED ledgerState
                   ELSE last'.result \notin InvalidInput
          /\ \A t \in SSIConsentInputs :
                Grants(s, t, <<t[4], FactoryTerms[2], FactoryTerms[3]>>)
                => IF t[1] = "" \/ t[2] = "" \/ t[3] = ""
                   THEN last'.result \in InvalidInput /\ UNCHANGED ledgerState
                   ELSE /\ last'.result = OK
                        /\ consentRecord(t)'.dataCategories = t[4] ]_vars

\* a credential with an empty metadataURI and a consent with empty
\* dataCategories are on record, and the Issuer's registerSchema with an empty
\* URI has just failed
C28_Witness ==
    /\ last = Receipt("registerSchema", "Empty schema URI")
    /\ \E p \in SSICredentialInputs :
          /\ _credentials[_generateCredentialId(p[1], p[2])].isRegistered
          /\ _credentials[_generateCredentialId(p[1], p[2])].metadataURI = ""
    /\ \E t \in SSIConsentInputs :
          consentRecord(t).isRegistered /\ consentRecord(t).dataCategories = ""
    /\ \A id \in SchemaIds : ~isSchemaRegistered(id)

\* C29: every write is atomic.  A failing registerCredential,
\* revokeCredential, registerSchema, grantConsent, revokeConsent,
\* role-management call, transferOwnership, updateMetadata or createRegistry
\* leaves the records, roles, owner, metadata, schema id list and registry
\* list of the registry and of the factory as they were and appends no event.
C29_FailedWritesChangeNothing ==
    [][( nSteps' # nSteps /\ last'.result # OK ) => UNCHANGED completeState]_vars

\* with a credential on record and a registry created, the owner's
\* transferOwnership to the zero address has just failed
C29_Witness ==
    /\ last = Receipt("transferOwnership", "AccessControl: zero address")
    /\ registered # {}
    /\ getRegistryCount = 1
    /\ Len(ownerEvents) = 1

\* C31: no state shows a partially applied write.  In every credential and
\* consent record, isRegistered implies a non-zero registeredBy, isRevoked
\* implies isRegistered and a non-zero revokedBy, and a record that is not
\* revoked has revokedAt = 0 and the zero revokedBy.  In every schema record,
\* isRegistered implies version >= 1, non-zero registeredBy and updatedBy and
\* updatedAt >= registeredAt, and an unregistered record has version 0.
C31_NoPartialWrite ==
    /\ \A id \in CredentialIds :
          /\ _credentials[id].isRegistered => _credentials[id].registeredBy # address0
          /\ _credentials[id].isRevoked
             => /\ _credentials[id].isRegistered
                /\ _credentials[id].revokedBy # address0
          /\ ~_credentials[id].isRevoked
             => /\ _credentials[id].revokedAt = 0
                /\ _credentials[id].revokedBy = address0
    /\ \A k \in ConsentKeys :
          /\ _consents[k].isRegistered => _consents[k].registeredBy # address0
          /\ _consents[k].isRevoked
             => /\ _consents[k].isRegistered
                /\ _consents[k].revokedBy # address0
          /\ ~_consents[k].isRevoked
             => /\ _consents[k].revokedAt = 0
                /\ _consents[k].revokedBy = address0
    /\ \A id \in SchemaIds :
          /\ _schemas[id].isRegistered
             => /\ _schemas[id].version >= 1
                /\ _schemas[id].registeredBy # address0
                /\ _schemas[id].updatedBy # address0
                /\ _schemas[id].updatedAt >= _schemas[id].registeredAt
          /\ ~_schemas[id].isRegistered => _schemas[id].version = 0

\* a consent was granted, revoked in a later block and has just been granted
\* again
C31_Witness ==
    /\ last = Receipt("grantConsent", OK)
    /\ now > 1
    /\ \E k \in ConsentKeys :
          /\ consentCalls[k] = [grants |-> 2, revokes |-> 1]
          /\ _consents[k].isRegistered
          /\ ~_consents[k].isRevoked

\* C32: a credential record is never deleted and its registration data never
\* changes: a registered record stays registered with the same registeredBy,
\* registeredAt and metadataURI.  A successful revokeCredential changes
\* nothing but isRevoked, revokedAt and revokedBy of the one record it
\* addresses.
C32_RegistrationImmutable ==
    [][ /\ \A id \in CredentialIds :
              _credentials[id].isRegistered
              => /\ _credentials'[id].isRegistered
                 /\ _credentials'[id].registeredBy = _credentials[id].registeredBy
                 /\ _credentials'[id].registeredAt = _credentials[id].registeredAt
                 /\ _credentials'[id].metadataURI = _credentials[id].metadataURI
        /\ \A s \in Address, p \in CredentialInputs :
              ( last' = Receipt("revokeCredential", OK) /\ Revokes(s, p) )
              => /\ \A id \in CredentialIds \ {_generateCredentialId(p[1], p[2])} :
                       _credentials'[id] = _credentials[id]
                 /\ [getCredentialInfo(p[1], p[2])' EXCEPT
                        !.isRevoked = getCredentialInfo(p[1], p[2]).isRevoked,
                        !.revokedAt = getCredentialInfo(p[1], p[2]).revokedAt,
                        !.revokedBy = getCredentialInfo(p[1], p[2]).revokedBy]
                       = getCredentialInfo(p[1], p[2])
                 /\ getCredentialInfo(p[1], p[2])'.isRevoked ]_vars

\* one of two registered credentials has just been revoked
C32_Witness ==
    /\ last = Receipt("revokeCredential", OK)
    /\ \E id1, id2 \in CredentialIds :
          /\ id1 # id2
          /\ _credentials[id1].isRevoked
          /\ _credentials[id2].isRegistered
          /\ ~_credentials[id2].isRevoked

\* C33: grantConsent with non-empty arguments on a key whose record is
\* registered and not revoked succeeds, whoever calls it, and overwrites
\* expiresAt, dataCategories, accessLevel, registeredAt and registeredBy with
\* the values of the call; the consent is valid afterwards exactly when the
\* new expiresAt is 0 or not before the ledger time.
C33_LiveGrantOverwrites ==
    [][\A s \in ConsentCallers, t \in NonEmptyTriples, c \in ConsentTerms :
          ( /\ consentRecord(t).isRegistered
            /\ ~consentRecord(t).isRevoked
            /\ Grants(s, t, c) )
          => /\ last'.result = OK
             /\ consentRecord(t)'.dataCategories = c[1]
             /\ consentRecord(t)'.accessLevel = c[2]
             /\ consentRecord(t)'.expiresAt = c[3]
             /\ consentRecord(t)'.registeredAt = now
             /\ consentRecord(t)'.registeredBy = s
             /\ isConsentValid(t[1], t[2], t[3])' <=> (c[3] = 0 \/ now' <= c[3]) ]_vars

\* a consent was granted a second time with no revocation in between, by an
\* account that holds no role, and is valid in the block of its new expiry
C33_Witness ==
    /\ last = Receipt("grantConsent", OK)
    /\ \E t \in NonEmptyTriples :
          /\ consentHistory(t) = [grants |-> 2, revokes |-> 0]
          /\ consentRecord(t).registeredBy = "alice"
          /\ consentRecord(t).dataCategories = "email,phone"
          /\ consentRecord(t).expiresAt = 2
          /\ now = 2
          /\ isConsentValid(t[1], t[2], t[3])

\* C34: the ledger time never decreases, and a consent whose expiresAt is not
\* 0 and lies before the ledger time is invalid and stays so, with its expiry
\* still in the past, over every step that is not a successful grantConsent
\* on its key: no revoke, role or time step makes it valid again.
C34_ExpiryPermanent ==
    [][ /\ now' >= now
        /\ \A t \in ExpiryInputs :
              ( /\ consentRecord(t).isRegistered
                /\ consentRecord(t).expiresAt # 0
                /\ now > consentRecord(t).expiresAt
                /\ ~ ( /\ last' = Receipt("grantConsent", OK)
                       /\ \E s \in ConsentCallers, u \in ExpiryInputs, c \in ConsentTerms :
                             /\ _generateConsentKey(u[1], u[2], u[3])
                                   = _generateConsentKey(t[1], t[2], t[3])
                             /\ Grants(s, u, c) ) )
              => /\ ~isConsentValid(t[1], t[2], t[3])
                 /\ ~isConsentValid(t[1], t[2], t[3])'
                 /\ consentRecord(t)'.isRegistered
                 /\ consentRecord(t)'.expiresAt # 0
                 /\ now' > consentRecord(t)'.expiresAt ]_vars

\* a consent expired two blocks ago, an Issuer was added since, and the
\* consent is neither revoked nor valid
C34_Witness ==
    /\ last = Receipt("block", OK)
    /\ hasRole(ISSUER_ROLE, FactoryGrantee)
    /\ \E t \in ExpiryInputs :
          /\ consentRecord(t).isRegistered
          /\ ~consentRecord(t).isRevoked
          /\ consentRecord(t).expiresAt = 1
          /\ now = 3
          /\ ~isConsentValid(t[1], t[2], t[3])

\* C35: the schema event log reconstructs the version history.  For every
\* schemaId the log is empty exactly while the id is unregistered; its first
\* event is SchemaRegistered and every later one SchemaUpdated, the i-th
\* event carrying the version i; the URI of the last event is the current
\* getSchemaURI and its position the stored version.  A successful
\* registerSchema appends one event to the log of its id, and no other step
\* changes any log.
C35_LogReconstructsHistory ==
    /\ [] \A id \in SchemaIds :
             /\ isSchemaRegistered(id) <=> Len(schemaLog[id]) > 0
             /\ \A i \in 1..Len(schemaLog[id]) :
                   IF i = 1
                   THEN schemaLog[id][i][1] = "SchemaRegistered"
                   ELSE /\ schemaLog[id][i][1] = "SchemaUpdated"
                        /\ schemaLog[id][i][3] = i
             /\ Len(schemaLog[id]) > 0
                => /\ schemaLog[id][Len(schemaLog[id])][2] = getSchemaURI(id)
                   /\ _schemas[id].version = Len(schemaLog[id])
    /\ [][\A id \in SchemaIds :
             IF last' = Receipt("registerSchema", OK)
                /\ \E s \in Address, u \in SchemaURIs : RegistersSchema(s, id, u)
             THEN Len(schemaLog'[id]) = Len(schemaLog[id]) + 1
             ELSE schemaLog'[id] = schemaLog[id] ]_vars

\* a schema was registered and updated twice, the last time with the URI
\* of its registration
C35_Witness ==
    \E id \in SchemaIds :
       /\ Len(schemaLog[id]) = 3
       /\ schemaLog[id][3] = <<"SchemaUpdated", schemaLog[id][1][2], 3>>
       /\ schemaLog[id][2][2] # schemaLog[id][1][2]
       /\ _schemas[id].version = 3

\* C36: within one registry the ledgers are independent.  A credential
\* transaction leaves every schema and consent record and the schema id list
\* unchanged, a schema transaction every credential and consent record, a
\* consent transaction every credential and schema record and the schema id
\* list, and none of them changes a role membership or the owner.
C36_LedgersIndependent ==
    [][ /\ ( nSteps' # nSteps /\ last'.op \in CredentialOps )
           => UNCHANGED <<_schemas, _schemaIds, schemaLog, _consents, consentCalls,
                          _roles, _owner>>
        /\ ( nSteps' # nSteps /\ last'.op \in SchemaOps )
           => UNCHANGED <<_credentials, registered, revoked, _consents, consentCalls,
                          _roles, _owner>>
        /\ ( nSteps' # nSteps /\ last'.op \in ConsentOps )
           => UNCHANGED <<_credentials, registered, revoked, _schemas, _schemaIds,
                          schemaLog, _roles, _owner>> ]_vars

\* with a live consent on record, a credential has just been revoked
\* by its Issuer
C36_Witness ==
    /\ last = Receipt("revokeCredential", OK)
    /\ \E k \in ConsentKeys : _consents[k].isRegistered /\ ~_consents[k].isRevoked
    /\ \E id \in CredentialIds : _credentials[id].isRevoked
    /\ \E a \in Address : hasRole(ISSUER_ROLE, a)

\* C37: ownership and roles are independent.  A transferOwnership call
\* changes nothing but the owner (and its event record): every role
\* membership stays as it is, so the new owner gains no Verifier or Issuer
\* role and the previous owner keeps the roles it had; a successful one makes
\* newOwner the owner.  A role grant or revocation never changes the owner.
C37_OwnershipAndRolesIndependent ==
    [][ /\ \A s \in Address, n \in Address \cup {address0} :
              TransfersOwnership(s, n)
              => /\ _roles' = _roles
                 /\ \A r \in Roles, a \in {s, n} \cap Address :
                       hasRole(r, a)' <=> hasRole(r, a)
                 /\ last'.result = OK => _owner' = n
                 /\ UNCHANGED <<now, credentialState, consentState, schemaState,
                                roleEvents, metadataState, factoryState>>
        /\ ( nSteps' # nSteps /\ last'.op \in RoleOps )
           => _owner' = _owner /\ ownerEvents' = ownerEvents ]_vars

\* after a transfer the owner holds no role while the previous owner is
\* still a Verifier, and an Issuer it appointed before the transfer exists
C37_Witness ==
    /\ last = Receipt("transferOwnership", OK)
    /\ Len(ownerEvents) = 2
    /\ \A r \in Roles : ~hasRole(r, _owner)
    /\ hasRole(VERIFIER_ROLE, ownerEvents[2][1])
    /\ \E a \in Address : hasRole(ISSUER_ROLE, a)

\* C38: a Verifier can give up its own Verifier role: removeVerifier on
\* itself succeeds and the caller is no Verifier afterwards.  From a state in
\* which no account holds the Verifier role no step changes any role
\* membership, whoever calls, the owner included; so that state, once
\* reached, lasts and the role directory is frozen.
C38_NoVerifierFreezesRoles ==
    [][ /\ \A s \in Address :
              ( /\ hasRole(VERIFIER_ROLE, s)
                /\ last'.op = "removeVerifier"
                /\ removeVerifier(s, s) )
              => /\ last'.result = OK
                 /\ ~hasRole(VERIFIER_ROLE, s)'
        /\ ( \A a \in Accounts : ~hasRole(VERIFIER_ROLE, a) )
           => /\ _roles' = _roles
              /\ last'.op \in RoleOps => last'.result = "AccessControl: missing role"
              /\ \A s \in Address : roleWrapperRequire(s)' # OK ]_vars

\* the deployer, the only Verifier there ever was, has revoked its own role
\* and, still the owner, a later addVerifier call has failed
C38_Witness ==
    /\ last = Receipt("addVerifier", "AccessControl: missing role")
    /\ roleEvents[VERIFIER_ROLE][deployer] = <<"RoleGranted", "RoleRevoked">>
    /\ \A a \in Accounts \ {deployer} : roleEvents[VERIFIER_ROLE][a] = <<>>
    /\ \A a \in Accounts : ~hasRole(VERIFIER_ROLE, a)
    /\ owner = deployer

\* C39: in every registry created through createRegistry the factory is the
\* only holder of the Verifier role and no account holds the Issuer role, in
\* every reachable state; the creator becomes the owner and holds no role.
\* In such a registry every registerCredential, revokeCredential,
\* registerSchema and role-management call of an external account fails as
\* Unauthorized, while grantConsent succeeds, revokeConsent succeeds on a
\* live consent, and updateMetadata succeeds for the owner.
C39_FactoryRegistryLocked ==
    /\ [] \A r \in createdRegistries :
             /\ \A a \in Accounts :
                   /\ registryState(r)._roles[VERIFIER_ROLE][a] <=> a = factory
                   /\ ~registryState(r)._roles[ISSUER_ROLE][a]
             /\ registryState(r)._owner \in Address
    /\ [][ /\ \A s \in FactoryCallers :
                ( CreatesRegistry(s, FactoryCreateMetadata) /\ last'.result = OK )
                => \E new \in RegistryAddresses :
                      /\ new = _registries'[Len(_registries')]
                      /\ registryState(new)'._owner = s
                      /\ \A r \in Roles : ~registryState(new)'._roles[r][s]
           /\ ( /\ this \in createdRegistries
                /\ nSteps' # nSteps
                /\ last'.op \in CredentialOps \cup SchemaOps \cup RoleOps )
              => /\ last'.result \in Unauthorized
                 /\ UNCHANGED <<_roles, _credentials, _schemas, _schemaIds>>
           /\ \A s \in FactoryCallers :
                 /\ ( this \in createdRegistries /\ Grants(s, FactoryConsent, FactoryTerms) )
                    => /\ last'.result = OK
                       /\ consentRecord(FactoryConsent)'.isRegistered
                       /\ ~consentRecord(FactoryConsent)'.isRevoked
                 /\ ( /\ this \in createdRegistries
                      /\ consentRecord(FactoryConsent).isRegistered
                      /\ ~consentRecord(FactoryConsent).isRevoked
                      /\ RevokesConsent(s, FactoryConsent) )
                    => /\ last'.result = OK
                       /\ consentRecord(FactoryConsent)'.isRevoked
                 /\ ( /\ this \in createdRegistries
                      /\ s = owner
                      /\ UpdatesMetadata(s, FactoryUpdateMetadata) )
                    => /\ last'.result = OK
                       /\ name' = FactoryUpdateMetadata[1] ]_vars

\* in a registry the factory created, a consent is on record, the owner has
\* renamed the registry, and its addIssuer call has just failed
C39_Witness ==
    /\ this \in createdRegistries
    /\ last = Receipt("addIssuer", "AccessControl: missing role")
    /\ consentRecord(FactoryConsent).isRegistered
    /\ name = FactoryUpdateMetadata[1]
    /\ owner \in FactoryCallers
    /\ \A r \in Roles : ~hasRole(r, owner)

====
